---- MODULE Spec2Model ----
(***************************************************************************)
(* A model of torch/distributed/_shard/sharded_tensor/api.py: the          *)
(* ShardedTensor construction protocols, gather and reshard, run SPMD by   *)
(* the participants of one process group.                                  *)
(*                                                                         *)
(* Tensors are 0-based n-dimensional boxes of integers; an index is a      *)
(* tuple of 0-based coordinates (tuple positions are 1-based, so dimension *)
(* d of the source is position d+1 here).                                  *)
(***************************************************************************)
EXTENDS Integers, Sequences, FiniteSets, TLC

(***************************************************************************)
(* Bounds of the model.                                                    *)
(***************************************************************************)
MaxRanks == 2          \* participants of the group: 1..MaxRanks
MaxRows == 3           \* extent of dimension 0 of the sharded tensor: 1..MaxRows
MaxPlacements == 2     \* length of a chunk spec's placement list: 1..MaxPlacements

VARIABLES
    world,      \* the arguments the client passes on each participant (never changes)
    pc,         \* pc[r]: where participant r is in its SPMD program
    inst,       \* inst[r]: the fields of participant r's ShardedTensor
    err,        \* err[r]: the exception participant r's last call raised, or NoError
    agbuf,      \* all_gather_object of _init_from_local_shards: slot per participant
    gbuf,       \* gather_object of gather: what each participant handed in
    out,        \* out[r]: the tensor participant r passes as gather's `out`, or None
    xbuf,       \* the exchange of reshard: what each participant handed in
    ncalls,     \* ncalls[r]: number of reshard/gather calls participant r has made
    kept,       \* kept[r]: what the client of participant r kept of its first gather
    sharded_tensor_lock,        \* per process: the thread that holds the lock, or Free
    sharded_tensor_current_id,  \* per process: the next identifier
    sharded_tensor_map,         \* per process: identifier -> weak handle (an object)
    objs,       \* objs[p][o]: the fields of object o of process p
    opc,        \* opc[p][o]: where the thread that owns object o of process p is
    all_ids,    \* all_ids[o][p]: what p handed to the _all_gather of object o
    barrier,    \* barrier[o]: the participants that have entered the barrier of object o
    rpcs,       \* the _register_remote_shards calls sent, with their handlers
    SHARDED_OPS,    \* the table of custom sharded ops of the process: op -> handler
    torch_call,     \* the application of an op handed to __torch_function__, or None
    invoked,        \* the handler invocations __torch_function__ has made, in order
    thrown          \* the exception __torch_function__ or _register_sharded_op raised

\* The process-wide tables, the objects of the processes and their calls.
registry ==
    <<sharded_tensor_lock, sharded_tensor_current_id, sharded_tensor_map,
      objs, opc, all_ids, barrier, rpcs>>

\* The custom ops of the process and the dispatch of an application.
dispatch == <<SHARDED_OPS, torch_call, invoked, thrown>>

vars == <<world, pc, inst, err, agbuf, gbuf, out, xbuf, ncalls, kept, registry, dispatch>>

(***************************************************************************)
(* Values.                                                                 *)
(***************************************************************************)
None == [kind |-> "None"]
NoError == [type |-> "NoError"]
IsNone(x) == x = None

Min(a, b) == IF a < b THEN a ELSE b
Max(a, b) == IF a < b THEN b ELSE a

RECURSIVE SeqMax(_)
SeqMax(s) == IF s = <<>> THEN 0 ELSE Max(Head(s), SeqMax(Tail(s)))

RECURSIVE Volume(_)
Volume(s) == IF s = <<>> THEN 1 ELSE Head(s) * Volume(Tail(s))

\* The indices of a tensor of the given size.
Indices(size) ==
    {idx \in [DOMAIN size -> 0..SeqMax(size)] : \A d \in DOMAIN size : idx[d] < size[d]}

\* Row-major position of an index in a tensor of the given size.
RECURSIVE LinIndex(_, _)
LinIndex(size, idx) ==
    IF size = <<>> THEN 0
    ELSE Head(idx) * Volume(Tail(size)) + LinIndex(Tail(size), Tail(idx))

AddIdx(a, b) == [d \in DOMAIN a |-> a[d] + b[d]]
SubIdx(a, b) == [d \in DOMAIN a |-> a[d] - b[d]]

Placement(rank, device) == [rank |-> rank, device |-> device]

ShardMetadata(offsets, sizes, placement) ==
    [shard_offsets |-> offsets, shard_sizes |-> sizes, placement |-> placement]

TensorProperties(dtype, layout, requires_grad, memory_format, pin_memory) ==
    [dtype |-> dtype, layout |-> layout, requires_grad |-> requires_grad,
     memory_format |-> memory_format, pin_memory |-> pin_memory]

ShardedTensorMetadata(shards_metadata, size, tensor_properties) ==
    [shards_metadata |-> shards_metadata, size |-> size,
     tensor_properties |-> tensor_properties]

Shard(tensor, metadata) == [tensor |-> tensor, metadata |-> metadata]

ChunkShardingSpec(dim, placements) ==
    [kind |-> "ChunkShardingSpec", dim |-> dim, placements |-> placements]

EnumerableShardingSpec(shards) ==
    [kind |-> "EnumerableShardingSpec", shards |-> shards]

\* A tensor: what the checks of the constructors read, and its elements.
Tensor(size, layout, contiguous, pinned, device, dtype, requires_grad, data) ==
    [size |-> size, layout |-> layout, contiguous |-> contiguous, pinned |-> pinned,
     device |-> device, dtype |-> dtype, requires_grad |-> requires_grad, data |-> data]

Raise(type, what) == [type |-> type, what |-> what]
Ok(value) == [ok |-> TRUE, value |-> value]
Failed(error) == [ok |-> FALSE, error |-> error]

(***************************************************************************)
(* Boxes.                                                                  *)
(***************************************************************************)
\* The global indices a shard covers: [offset, offset + size) in every dimension.
Box(m) ==
    {AddIdx(m.shard_offsets, i) : i \in Indices(m.shard_sizes)}

\* Two shards overlap when their intervals meet in every dimension.
ShardsOverlap(a, b) ==
    \A d \in DOMAIN a.shard_offsets :
        /\ a.shard_offsets[d] < b.shard_offsets[d] + b.shard_sizes[d]
        /\ b.shard_offsets[d] < a.shard_offsets[d] + a.shard_sizes[d]

\* validate_non_overlapping_shards_metadata: TRUE when it raises.
OverlappingShardsMetadata(shards) ==
    \E i, j \in DOMAIN shards : i < j /\ ShardsOverlap(shards[i], shards[j])

\* check_tensor: TRUE when it raises (a shard reaches outside the tensor).
CheckTensorFails(shards, size) ==
    \E i \in DOMAIN shards :
        \/ Len(shards[i].shard_offsets) # Len(size)
        \/ \E d \in DOMAIN size :
              \/ shards[i].shard_offsets[d] < 0
              \/ shards[i].shard_offsets[d] + shards[i].shard_sizes[d] > size[d]

(***************************************************************************)
(* ShardingSpec.build_metadata.                                            *)
(***************************************************************************)
\* Chunk idx (0-based) of n chunks of a dimension: sizes as equal as possible,
\* the remainder going to the earliest chunks.
ChunkLength(extent, n, idx) == (extent \div n) + (IF idx < extent % n THEN 1 ELSE 0)
ChunkStart(extent, n, idx) == idx * (extent \div n) + Min(idx, extent % n)

ChunkShardMetadata(spec, size, idx) ==
    LET d == spec.dim + 1
        n == Len(spec.placements)
    IN ShardMetadata(
           [k \in DOMAIN size |-> IF k = d THEN ChunkStart(size[d], n, idx) ELSE 0],
           [k \in DOMAIN size |-> IF k = d THEN ChunkLength(size[d], n, idx) ELSE size[k]],
           spec.placements[idx + 1])

BuildMetadata(spec, size, tensor_properties) ==
    IF spec.kind = "ChunkShardingSpec"
    THEN IF spec.dim < 0 \/ spec.dim >= Len(size)
         THEN Failed(Raise("ValueError", "invalid sharding dim"))
         ELSE IF Len(spec.placements) = 0 \/ size[spec.dim + 1] < Len(spec.placements)
         THEN Failed(Raise("ValueError", "placements do not divide the dimension"))
         ELSE Ok(ShardedTensorMetadata(
                    [i \in 1..Len(spec.placements) |-> ChunkShardMetadata(spec, size, i - 1)],
                    size, tensor_properties))
    ELSE IF OverlappingShardsMetadata(spec.shards)
         THEN Failed(Raise("ValueError", "shards overlap"))
         ELSE IF CheckTensorFails(spec.shards, size)
         THEN Failed(Raise("ValueError", "shard out of bounds"))
         ELSE Ok(ShardedTensorMetadata(spec.shards, size, tensor_properties))

\* _parse_and_validate_remote_device: (rank, device) of a placement.
ParseAndValidateRemoteDevice(placement) == <<placement.rank, placement.device>>


(***************************************************************************)
(* The ShardedTensor object.                                               *)
(***************************************************************************)
NoId == -1
NoInstance == [kind |-> "NoInstance"]

\* The torch functions an application can name, and the entry of the table of
\* an op that has no handler.
Ops == {"add", "cat"}
NoHandler == [kind |-> "NoHandler"]

\* The _remote_shards of an object that has no such attribute: no table of an
\* object has the key NoId.
NoAttribute == [rank \in {NoId} |-> <<>>]

\* A thread of a process: the one that constructs or loads object obj ("init"),
\* the one that finalizes it ("del"), or the one that handles the inbound call
\* of that key ("rpc"). Free is the value of a lock no thread holds.
Thread(kind, obj, key) == [kind |-> kind, obj |-> obj, key |-> key]
Free == Thread("free", 0, <<>>)

\* distributed_c10d._get_default_group(): every instance of the model is made
\* without a process_group argument and so in the default group.
DefaultGroup == "default_group"

\* _prepare_init: the fields of a fresh object.
PrepareInit(init_rrefs) ==
    [init_rrefs |-> init_rrefs, sharded_tensor_id |-> NoId,
     process_group |-> DefaultGroup,
     local_shards |-> <<>>, remote_shards |-> <<>>,
     metadata |-> None, sharding_spec |-> None]

\* torch.empty: an uninitialized tensor; `fill` is what the memory happens to hold.
CreateTensorFromParams(size, local_device, tensor_properties, fill) ==
    Tensor(size, tensor_properties.layout,
           tensor_properties.memory_format = "contiguous_format",
           tensor_properties.pin_memory, local_device, tensor_properties.dtype,
           tensor_properties.requires_grad, [idx \in Indices(size) |-> fill])

\* A loop that forgets to compare the placement's rank with its own.
RECURSIVE InitLocalShardsOfEveryRank(_, _, _, _, _)
InitLocalShardsOfEveryRank(shards_metadata, current_rank, tensor_properties, fill, acc) ==
    IF shards_metadata = <<>> THEN acc
    ELSE LET shard_metadata == Head(shards_metadata)
             rd == ParseAndValidateRemoteDevice(shard_metadata.placement)
         IN InitLocalShardsOfEveryRank(
                Tail(shards_metadata), current_rank, tensor_properties, fill,
                Append(acc, Shard(CreateTensorFromParams(
                                      shard_metadata.shard_sizes, rd[2],
                                      tensor_properties, fill),
                                  shard_metadata)))

\* The loop of __init__ over the shards of the metadata: a participant creates a
\* Shard for each entry whose placement names its rank.
RECURSIVE InitLocalShards(_, _, _, _, _)
InitLocalShards(shards_metadata, current_rank, tensor_properties, fill, acc) ==
    IF shards_metadata = <<>> THEN acc
    ELSE LET shard_metadata == Head(shards_metadata)
             rd == ParseAndValidateRemoteDevice(shard_metadata.placement)
         IN InitLocalShards(
                Tail(shards_metadata), current_rank, tensor_properties, fill,
                IF rd[1] = current_rank
                THEN Append(acc, Shard(CreateTensorFromParams(
                                           shard_metadata.shard_sizes, rd[2],
                                           tensor_properties, fill),
                                       shard_metadata))
                ELSE acc)

\* ShardedTensor.__init__(sharding_spec, *size, dtype=..., ...) on current_rank.
ShardedTensorInit(current_rank, sharding_spec, size, dtype, layout, requires_grad, pin_memory, memory_format, init_rrefs, fill) ==
    LET tensor_properties ==
            TensorProperties(IF dtype = "None" THEN "float32" ELSE dtype,
                             layout, requires_grad, memory_format, pin_memory)
        built == BuildMetadata(sharding_spec, size, tensor_properties)
    IN IF layout # "strided"
       THEN Failed(Raise("ValueError", "Only torch.strided layout is currently supported"))
       ELSE IF memory_format # "contiguous_format"
       THEN Failed(Raise("ValueError",
                "Only torch.contiguous_format memory_format is currently supported"))
       ELSE IF ~built.ok THEN Failed(built.error)
       ELSE Ok([PrepareInit(init_rrefs) EXCEPT
                   !.sharding_spec = sharding_spec,
                   !.local_shards =
                       InitLocalShards(built.value.shards_metadata, current_rank,
                                       built.value.tensor_properties, fill, <<>>),
                   !.metadata = built.value])


(***************************************************************************)
(* _init_from_local_shards.                                                *)
(***************************************************************************)
\* build_metadata_from_local_shards: the partial view a participant derives from
\* the shards it holds.
BuildMetadataFromLocalShards(local_shards, global_size, current_rank) ==
    ShardedTensorMetadata(
        [i \in DOMAIN local_shards |-> local_shards[i].metadata],
        global_size,
        TensorProperties(local_shards[1].tensor.dtype, local_shards[1].tensor.layout,
                         local_shards[1].tensor.requires_grad, "contiguous_format",
                         local_shards[1].tensor.pinned))

\* STEP 1 of _init_from_local_shards: None when the participant holds no shard.
LocalShardedTensorMetadata(local_shards, global_size, current_rank) ==
    IF Len(local_shards) > 0
    THEN BuildMetadataFromLocalShards(local_shards, global_size, current_rank)
    ELSE None

\* The merge of build_global_metadata: the views that are not None, in the order
\* of the gathered list.
RECURSIVE MergeViews(_, _)
MergeViews(gathered, acc) ==
    IF gathered = <<>> THEN Ok(acc)
    ELSE LET rank_metadata == Head(gathered)
         IN IF IsNone(rank_metadata) THEN MergeViews(Tail(gathered), acc)
            ELSE IF IsNone(acc) THEN MergeViews(Tail(gathered), rank_metadata)
            ELSE IF rank_metadata.size # acc.size
            THEN Failed(Raise("ValueError", "global_size conflicts between ranks"))
            ELSE IF rank_metadata.tensor_properties # acc.tensor_properties
            THEN Failed(Raise("ValueError", "tensor properties conflict between ranks"))
            ELSE MergeViews(Tail(gathered),
                     [acc EXCEPT !.shards_metadata = @ \o rank_metadata.shards_metadata])

\* build_global_metadata: merge, then validate the merged view.
BuildGlobalMetadata(gathered_metadatas) ==
    LET merged == MergeViews(gathered_metadatas, None)
    IN IF ~merged.ok THEN merged
       ELSE IF IsNone(merged.value)
       THEN Failed(Raise("ValueError", "ShardedTensor have no local shards on all ranks!"))
       ELSE IF OverlappingShardsMetadata(merged.value.shards_metadata)
       THEN Failed(Raise("ValueError", "shards overlap"))
       ELSE IF CheckTensorFails(merged.value.shards_metadata, merged.value.size)
       THEN Failed(Raise("ValueError", "shard out of bounds"))
       ELSE merged

\* The shards in increasing order of their offset in dimension d (0-based),
\* the offsets being distinct.
SortedByOffset(shards, d) ==
    [k \in DOMAIN shards |->
        shards[CHOOSE i \in DOMAIN shards :
                  Cardinality({j \in DOMAIN shards :
                                  shards[j].shard_offsets[d + 1]
                                      < shards[i].shard_offsets[d + 1]}) = k - 1]]

\* Whether the shards are the chunks of dimension d (0-based), in some order.
IsChunkLayout(shards, d) ==
    LET Off(m) == m.shard_offsets[d + 1]
        offs == {Off(shards[i]) : i \in DOMAIN shards}
        total == SeqMax([i \in DOMAIN shards |-> Off(shards[i]) + shards[i].shard_sizes[d + 1]])
        size == [k \in DOMAIN shards[1].shard_sizes |->
                    IF k = d + 1 THEN total ELSE shards[1].shard_sizes[k]]
    IN /\ Cardinality(offs) = Len(shards)
       /\ LET sorted == SortedByOffset(shards, d)
              spec == ChunkShardingSpec(d, [i \in DOMAIN sorted |-> sorted[i].placement])
              built == BuildMetadata(spec, size, None)
          IN built.ok /\ built.value.shards_metadata = sorted

\* _infer_sharding_spec_from_shards_metadata: the chunk spec of a layout that
\* is chunked along one dimension, the enumeration of the shards otherwise.
InferShardingSpecFromShardsMetadata(shards_metadata) ==
    LET dims == {d \in 0..(Len(shards_metadata[1].shard_sizes) - 1) :
                    IsChunkLayout(shards_metadata, d)}
        sorted == SortedByOffset(shards_metadata, CHOOSE d \in dims : TRUE)
    IN IF Len(shards_metadata) > 1 /\ Cardinality(dims) = 1
       THEN ChunkShardingSpec(CHOOSE d \in dims : TRUE,
                              [i \in DOMAIN sorted |-> sorted[i].placement])
       ELSE EnumerableShardingSpec(shards_metadata)

\* The sequence s from its last element to its first.
Reverse(s) == [i \in DOMAIN s |-> s[Len(s) + 1 - i]]

\* A constructor that merges the gathered views from the last rank to the first.
InitFromLocalShardsFinishReversed(local_shards, gathered_metadatas, init_rrefs) ==
    LET global == BuildGlobalMetadata(Reverse(gathered_metadatas))
    IN IF ~global.ok THEN global
       ELSE Ok([PrepareInit(init_rrefs) EXCEPT
                   !.metadata = global.value,
                   !.local_shards = local_shards,
                   !.sharding_spec =
                       InferShardingSpecFromShardsMetadata(global.value.shards_metadata)])

\* STEPs 2 and 3 of _init_from_local_shards, from the gathered views on.
InitFromLocalShardsFinish(local_shards, gathered_metadatas, init_rrefs) ==
    LET global == BuildGlobalMetadata(gathered_metadatas)
    IN IF ~global.ok THEN global
       ELSE Ok([PrepareInit(init_rrefs) EXCEPT
                   !.metadata = global.value,
                   !.local_shards = local_shards,
                   !.sharding_spec =
                       InferShardingSpecFromShardsMetadata(global.value.shards_metadata)])

(***************************************************************************)
(* _init_from_local_shards_and_global_metadata.                            *)
(***************************************************************************)
\* A check that lets every mismatch pass.
RaiseIfMismatchNever(expected, actual, prop_name, rank, is_property) == NoError

\* _raise_if_mismatch: the error names the property, both values and the rank.
RaiseIfMismatch(expected, actual, prop_name, rank, is_property) ==
    IF expected # actual
    THEN [type |-> "ValueError", what |-> "incompatible",
          prop_name |-> prop_name, expected |-> expected, actual |-> actual,
          rank |-> rank,
          against |-> IF is_property THEN "tensor property" ELSE "local ShardMetadata"]
    ELSE NoError

\* The first of the given checks that raises.
RECURSIVE FirstError(_)
FirstError(checks) ==
    IF checks = <<>> THEN NoError
    ELSE IF Head(checks).type # "NoError" THEN Head(checks)
    ELSE FirstError(Tail(checks))

\* The body of the loop over local_shards: the checks of one shard, in order.
ValidateLocalShard(shard, local_shard_metadatas, tensor_properties, current_rank) ==
    LET shard_meta == shard.metadata
        local_shard_tensor == shard.tensor
        local_device == ParseAndValidateRemoteDevice(shard_meta.placement)[2]
    IN FirstError(<<
        IF \E i \in DOMAIN local_shard_metadatas : local_shard_metadatas[i] = shard_meta
        THEN NoError
        ELSE Raise("AssertionError", "local shard metadata not in sharded_tensor_metadata!"),
        RaiseIfMismatch(tensor_properties.layout, local_shard_tensor.layout,
                        "layout", current_rank, TRUE),
        IF local_shard_tensor.contiguous THEN NoError
        ELSE Raise("ValueError",
                   "Only torch.contiguous_format memory_format is currently supported"),
        RaiseIfMismatch(shard_meta.shard_sizes, local_shard_tensor.size,
                        "size", current_rank, FALSE),
        RaiseIfMismatch(tensor_properties.pin_memory, local_shard_tensor.pinned,
                        "pin_memory", current_rank, TRUE),
        RaiseIfMismatch(local_device, local_shard_tensor.device,
                        "device", current_rank, FALSE),
        RaiseIfMismatch(tensor_properties.dtype, local_shard_tensor.dtype,
                        "dtype", current_rank, TRUE),
        RaiseIfMismatch(tensor_properties.requires_grad, local_shard_tensor.requires_grad,
                        "requires_grad", current_rank, TRUE)>>)

\* The entries of the metadata placed on current_rank, in metadata order.
LocalShardMetadatas(shards_metadata, current_rank) ==
    SelectSeq(shards_metadata,
              LAMBDA m : ParseAndValidateRemoteDevice(m.placement)[1] = current_rank)

\* The validation that decides whether the constructor accepts local_shards.
LocalShardsError(local_shards, local_shard_metadatas, tensor_properties, current_rank) ==
    IF Len(local_shards) # Len(local_shard_metadatas)
    THEN [type |-> "RuntimeError", what |-> "number of local shards",
          actual |-> Len(local_shards), expected |-> Len(local_shard_metadatas),
          rank |-> current_rank]
    ELSE FirstError([i \in DOMAIN local_shards |->
             ValidateLocalShard(local_shards[i], local_shard_metadatas,
                                tensor_properties, current_rank)])

\* A constructor that forgets the two checks of the supplied metadata.
ValidateGlobalMetadataForgotten(shards_metadata, size) == NoError

\* The checks of the supplied metadata: no two shards overlap, and every shard
\* lies inside the tensor.
ValidateGlobalMetadata(shards_metadata, size) ==
    IF OverlappingShardsMetadata(shards_metadata)
    THEN Raise("ValueError", "shards overlap")
    ELSE IF CheckTensorFails(shards_metadata, size)
    THEN Raise("ValueError", "shard out of bounds")
    ELSE NoError

InitFromLocalShardsAndGlobalMetadata(local_shards, sharded_tensor_metadata, current_rank, init_rrefs) ==
    LET shards_metadata == sharded_tensor_metadata.shards_metadata
        tensor_properties == sharded_tensor_metadata.tensor_properties
        local_shard_metadatas == LocalShardMetadatas(shards_metadata, current_rank)
        bad == LocalShardsError(local_shards, local_shard_metadatas,
                                tensor_properties, current_rank)
        invalid == ValidateGlobalMetadata(shards_metadata, sharded_tensor_metadata.size)
    IN IF Len(shards_metadata) = 0
       THEN Failed(Raise("ValueError", "shards_metadata must not be empty!"))
       ELSE IF tensor_properties.layout # "strided"
       THEN Failed(Raise("ValueError", "Only torch.strided layout is currently supported"))
       ELSE IF bad.type # "NoError" THEN Failed(bad)
       ELSE IF invalid.type # "NoError" THEN Failed(invalid)
       ELSE Ok([PrepareInit(init_rrefs) EXCEPT
                   !.metadata = sharded_tensor_metadata,
                   !.local_shards = local_shards,
                   !.sharding_spec = InferShardingSpecFromShardsMetadata(shards_metadata)])


(***************************************************************************)
(* The calls the client makes: the worlds the model starts from.           *)
(***************************************************************************)
Sizes == {<<rows, 2>> : rows \in {1, MaxRows}}

DefaultProperties ==
    TensorProperties("float32", "strided", FALSE, "contiguous_format", FALSE)

PlacementLists(W) ==
    UNION {[1..n -> {Placement(r, "cpu") : r \in 0..(W - 1)}] : n \in 1..MaxPlacements}

ChunkSpecs(W) == {ChunkShardingSpec(d, p) : d \in 0..1, p \in PlacementLists(W)}

\* The four quadrants of a 2-d tensor, dealt to the participants in turn.
Quadrants(W, size) ==
    LET r1 == (size[1] + 1) \div 2
        c1 == (size[2] + 1) \div 2
    IN <<ShardMetadata(<<0, 0>>, <<r1, c1>>, Placement(0, "cpu")),
         ShardMetadata(<<0, c1>>, <<r1, size[2] - c1>>, Placement(1 % W, "cpu")),
         ShardMetadata(<<r1, 0>>, <<size[1] - r1, c1>>, Placement(2 % W, "cpu")),
         ShardMetadata(<<r1, c1>>, <<size[1] - r1, size[2] - c1>>, Placement(3 % W, "cpu"))>>

EnumerableSpecs(W, size) ==
    IF size[1] >= 2 /\ size[2] >= 2
    THEN {EnumerableShardingSpec(Quadrants(W, size))}
    ELSE {}

\* The element of the logical tensor at a global index.
GlobalValue(size, idx) == LinIndex(size, idx) + 1

\* The tensor a client holds for a shard of the logical tensor.
TensorFor(m, size) ==
    Tensor(m.shard_sizes, "strided", TRUE, FALSE, m.placement.device, "float32", FALSE,
           [idx \in Indices(m.shard_sizes) |->
               GlobalValue(size, AddIdx(m.shard_offsets, idx))])

\* The specs that build a layout of the tensor: what the clients agree on.
AgreedSpecs(W, size) ==
    {sp \in ChunkSpecs(W) \cup EnumerableSpecs(W, size) :
        BuildMetadata(sp, size, DefaultProperties).ok}

Layout(sp, size) == BuildMetadata(sp, size, DefaultProperties).value

\* The shards of a layout held by participant r, with their data.
HeldShards(md, r) ==
    LET mine == SelectSeq(md.shards_metadata, LAMBDA m : m.placement.rank = r)
    IN [i \in DOMAIN mine |-> Shard(TensorFor(mine[i], md.size), mine[i])]

Held(md, W) == [r \in 0..(W - 1) |-> HeldShards(md, r)]

\* The places (participant, position) of the shards the participants hold.
Places(held) ==
    {p \in (DOMAIN held) \X (1..SeqMax([r \in 1..Cardinality(DOMAIN held) |->
                                          Len(held[r - 1])])) :
        p[2] <= Len(held[p[1]])}

\* One tensor attribute of a shard changed.
TensorFields ==
    {"layout", "contiguous", "size", "pinned", "device", "dtype", "requires_grad"}

WithField(t, f) ==
    CASE f = "layout" -> [t EXCEPT !.layout = "sparse_coo"]
      [] f = "contiguous" -> [t EXCEPT !.contiguous = FALSE]
      [] f = "size" -> [t EXCEPT !.size = [@ EXCEPT ![1] = @ + 1]]
      [] f = "pinned" -> [t EXCEPT !.pinned = TRUE]
      [] f = "device" -> [t EXCEPT !.device = "cuda:0"]
      [] f = "dtype" -> [t EXCEPT !.dtype = "float64"]
      [] f = "requires_grad" -> [t EXCEPT !.requires_grad = TRUE]

\* A shard moved by one along dimension d (1-based position), data and all.
ShiftedMetadata(m, d) == [m EXCEPT !.shard_offsets[d] = @ + 1]
Shifted(sh, d, size) ==
    Shard(TensorFor(ShiftedMetadata(sh.metadata, d), size), ShiftedMetadata(sh.metadata, d))

\* A second tensor for the box of shard sh: same attributes, other elements.
OtherData(sh) ==
    Shard([sh.tensor EXCEPT !.data = [idx \in DOMAIN @ |-> @[idx] + 100]], sh.metadata)

\* How a world departs from the agreed layout.
Variant(kind, rank, pos, what) == [kind |-> kind, rank |-> rank, pos |-> pos, what |-> what]
Agreed == Variant("agreed", 0, 0, "")

\* What the participants may hold instead of the shards of the agreed layout:
\* a shard moved, a participant holding nothing, an attribute of a tensor
\* changed, a shard given twice in place of another. Each with its Variant.
HeldVariants(md, W) ==
    LET held == Held(md, W)
    IN {<<Agreed, held>>}
       \cup {<<Variant("moved", p[1], p[2], IF d = 1 THEN "rows" ELSE "cols"),
               [held EXCEPT ![p[1]][p[2]] = Shifted(@, d, md.size)]>> :
                p \in Places(held), d \in 1..2}
       \cup {<<Variant("nothing", r, 0, ""), [held EXCEPT ![r] = <<>>]>> :
                r \in DOMAIN held}
       \cup {<<Variant("attribute", p[1], p[2], f),
               [held EXCEPT ![p[1]][p[2]].tensor = WithField(@, f)]>> :
                p \in Places(held), f \in TensorFields}
       \cup {<<Variant("twice", pq[1][1], pq[1][2], ""),
               [held EXCEPT ![pq[1][1]][pq[1][2]] = OtherData(held[pq[2][1]][pq[2][2]])]>> :
                pq \in {x \in Places(held) \X Places(held) :
                           x[1][1] = x[2][1] /\ x[1][2] # x[2][2]}}

\* What a client may pass as the agreed metadata instead of a valid layout.
MetadataVariants(md) ==
    {[md EXCEPT !.tensor_properties.layout = "sparse_coo"],
     [md EXCEPT !.shards_metadata = <<>>]}
    \cup {[md EXCEPT !.shards_metadata[k] = ShiftedMetadata(@, d)] :
             k \in DOMAIN md.shards_metadata, d \in 1..2}

\* The arguments of the clients: W participants, the protocol they construct
\* by, the size of the tensor, and the arguments of that protocol; agreed_spec
\* is the spec of the layout the clients mean and variant how they depart from
\* it; program is the reshard calls that follow and dst the rank they gather to.
\* objects is the objects each process makes where the registry is modelled,
\* stray whether a call outside the protocol comes in, and rpc_agent whether
\* the RPC framework has been initialized.
World(W, proto, size, agreed_spec, variant) ==
    [W |-> W, proto |-> proto, size |-> size,
     agreed_spec |-> agreed_spec, variant |-> variant,
     sharding_spec |-> None, dtype |-> "None", layout |-> "strided",
     memory_format |-> "contiguous_format",
     local_shards |-> [r \in 0..(W - 1) |-> <<>>],
     global_size |-> [r \in 0..(W - 1) |-> size],
     metadata |-> None, program |-> <<>>, dst |-> 0,
     objects |-> <<>>, stray |-> FALSE, rpc_agent |-> TRUE,
     initialized |-> TRUE, pg_saved |-> None, pg_now |-> None, saved_rrefs |-> TRUE]

\* Every (number of participants, size, agreed spec) of the model.
Agreements ==
    UNION {{<<W, size, sp>> : sp \in AgreedSpecs(W, size)} :
           W \in 1..MaxRanks, size \in Sizes}

\* The specs a client may pass: chunk specs, the quadrants, and enumerations
\* that overlap or reach outside the tensor.
SpecArguments(W, size) ==
    ChunkSpecs(W) \cup EnumerableSpecs(W, size)
    \cup UNION {{EnumerableShardingSpec(
                     [Layout(sp, size).shards_metadata EXCEPT ![k] = ShiftedMetadata(@, d)]) :
                    k \in DOMAIN Layout(sp, size).shards_metadata, d \in 1..2} :
                sp \in AgreedSpecs(W, size)}

KeywordArguments ==
    {<<"None", "strided", "contiguous_format">>,
     <<"float64", "strided", "contiguous_format">>,
     <<"float32", "sparse_coo", "contiguous_format">>,
     <<"float32", "strided", "channels_last">>}

\* ShardedTensor(spec, size, ...): every participant passes the same arguments.
WorldsFromSpec ==
    UNION {{[World(W, "spec", size, sp, Agreed) EXCEPT
                !.sharding_spec = sp, !.dtype = a[1], !.layout = a[2],
                !.memory_format = a[3]] :
               sp \in SpecArguments(W, size), a \in KeywordArguments} :
           W \in 1..MaxRanks, size \in Sizes}

\* _init_from_local_shards(local_shards, global_size): each participant passes
\* the shards it holds and the global size it believes in.
WorldsFromLocalShards ==
    UNION {{[World(l[1], "local", l[2], l[3], h[1]) EXCEPT !.local_shards = h[2]] :
               h \in HeldVariants(Layout(l[3], l[2]), l[1])}
           \cup {[World(l[1], "local", l[2], l[3], Variant("global_size", r, 0, "")) EXCEPT
                     !.local_shards = Held(Layout(l[3], l[2]), l[1]),
                     !.global_size[r] = [@ EXCEPT ![1] = @ + 1]] :
                    r \in 0..(l[1] - 1)} :
           l \in Agreements}

\* _init_from_local_shards_and_global_metadata(local_shards, metadata): each
\* participant passes the shards it holds and the same global metadata.
WorldsFromLocalShardsAndGlobalMetadata ==
    UNION {{[World(l[1], "lsgm", l[2], l[3], h[1]) EXCEPT
                !.local_shards = h[2], !.metadata = Layout(l[3], l[2])] :
               h \in HeldVariants(Layout(l[3], l[2]), l[1])}
           \cup {[World(l[1], "lsgm", l[2], l[3], Variant("metadata", 0, 0, "")) EXCEPT
                     !.local_shards = Held(IF held = 0 THEN Layout(l[3], l[2]) ELSE md, l[1]),
                     !.metadata = md] :
                    md \in MetadataVariants(Layout(l[3], l[2])), held \in 0..1} :
           l \in Agreements}

Worlds == WorldsFromSpec \cup WorldsFromLocalShards \cup WorldsFromLocalShardsAndGlobalMetadata

Ranks == 0..(world.W - 1)

(***************************************************************************)
(* The constructors, as run by participant r.                              *)
(***************************************************************************)
Unset == [kind |-> "Unset"]

InitWith(worlds) ==
    /\ world \in worlds
    /\ pc = [r \in 0..(world.W - 1) |-> "new"]
    /\ inst = [r \in 0..(world.W - 1) |-> NoInstance]
    /\ err = [r \in 0..(world.W - 1) |-> NoError]
    /\ agbuf = [r \in 0..(world.W - 1) |-> Unset]
    /\ gbuf = [r \in 0..(world.W - 1) |-> Unset]
    /\ out = [r \in 0..(world.W - 1) |-> None]
    /\ xbuf = [r \in 0..(world.W - 1) |-> <<>>]
    /\ ncalls = [r \in 0..(world.W - 1) |-> 0]
    /\ kept = [r \in 0..(world.W - 1) |-> None]
    /\ sharded_tensor_lock = [p \in 0..(world.W - 1) |-> Free]
    /\ sharded_tensor_current_id = [p \in 0..(world.W - 1) |-> 0]
    /\ sharded_tensor_map = [p \in 0..(world.W - 1) |-> <<>>]
    /\ objs = [p \in 0..(world.W - 1) |-> [o \in DOMAIN world.objects |-> NoInstance]]
    /\ opc = [p \in 0..(world.W - 1) |-> [o \in DOMAIN world.objects |-> "new"]]
    /\ all_ids = [o \in DOMAIN world.objects |-> [p \in 0..(world.W - 1) |-> NoId]]
    /\ barrier = [o \in DOMAIN world.objects |-> {}]
    /\ rpcs = {}
    /\ SHARDED_OPS = [op \in Ops |-> NoHandler]
    /\ torch_call = None
    /\ invoked = <<>>
    /\ thrown = NoError

Init == InitWith(Worlds)

\* A constructor returns the instance or raises.
Return(r, result) ==
    /\ pc' = [pc EXCEPT ![r] = IF result.ok THEN "live" ELSE "raised"]
    /\ inst' = [inst EXCEPT ![r] = IF result.ok THEN result.value ELSE NoInstance]
    /\ err' = [err EXCEPT ![r] = IF result.ok THEN NoError ELSE result.error]

\* ShardedTensor(sharding_spec, size, ...) on participant r.
Construct(r) ==
    /\ pc[r] = "new"
    /\ world.proto = "spec"
    /\ \E fill \in {0, 7} :
          Return(r, ShardedTensorInit(r, world.sharding_spec, world.size, world.dtype,
                                      world.layout, FALSE, FALSE, world.memory_format,
                                      FALSE, fill))
    /\ UNCHANGED <<world, dispatch, kept, registry, agbuf, gbuf, out, xbuf, ncalls>>

\* An _init_from_local_shards that calls all_gather_object in a group of one
\* participant as well.
InitFromLocalShardsAlwaysGathering(r) ==
    /\ pc[r] = "new"
    /\ world.proto = "local"
    /\ agbuf' = [agbuf EXCEPT ![r] = LocalShardedTensorMetadata(world.local_shards[r],
                                                               world.global_size[r], r)]
    /\ pc' = [pc EXCEPT ![r] = "all_gather"]
    /\ UNCHANGED <<inst, err>>
    /\ UNCHANGED <<world, dispatch, kept, registry, gbuf, out, xbuf, ncalls>>

\* _init_from_local_shards on participant r, up to all_gather_object; a group
\* of one participant uses its own view and finishes at once.
InitFromLocalShards(r) ==
    /\ pc[r] = "new"
    /\ world.proto = "local"
    /\ LET view == LocalShardedTensorMetadata(world.local_shards[r],
                                              world.global_size[r], r)
       IN IF world.W > 1
          THEN /\ agbuf' = [agbuf EXCEPT ![r] = view]
               /\ pc' = [pc EXCEPT ![r] = "all_gather"]
               /\ UNCHANGED <<inst, err>>
          ELSE /\ Return(r, InitFromLocalShardsFinish(world.local_shards[r],
                                                      <<view>>, FALSE))
               /\ UNCHANGED agbuf
    /\ UNCHANGED <<world, dispatch, kept, registry, gbuf, out, xbuf, ncalls>>

\* A participant that merges its own view only, as a group of one does.
OwnMetadataOnly(r) == <<agbuf[r]>>

\* gathered_metadatas after all_gather_object: the view of every participant,
\* in rank order.
GatheredMetadatas(r) == [i \in 1..world.W |-> agbuf[i - 1]]

\* all_gather_object returns on participant r once every participant has
\* handed in its view; the rest of _init_from_local_shards follows.
InitFromLocalShardsGathered(r) ==
    /\ pc[r] = "all_gather"
    /\ \A q \in Ranks : agbuf[q] # Unset
    /\ Return(r, InitFromLocalShardsFinish(
                     world.local_shards[r], GatheredMetadatas(r), FALSE))
    /\ UNCHANGED <<world, dispatch, kept, registry, agbuf, gbuf, out, xbuf, ncalls>>

\* _init_from_local_shards_and_global_metadata on participant r.
InitFromMetadata(r) ==
    /\ pc[r] = "new"
    /\ world.proto = "lsgm"
    /\ Return(r, InitFromLocalShardsAndGlobalMetadata(
                     world.local_shards[r], world.metadata, r, FALSE))
    /\ UNCHANGED <<world, dispatch, kept, registry, agbuf, gbuf, out, xbuf, ncalls>>

(***************************************************************************)
(* reshard.                                                                *)
(***************************************************************************)
\* A check that lets through an instance that holds several local shards.
ReshardUnsupportedOnlyWhenEmpty(st, resharding_spec) ==
    IF resharding_spec.kind # "ChunkShardingSpec"
       \/ st.sharding_spec.kind # "ChunkShardingSpec"
    THEN Raise("NotImplementedError", "Only ChunkShardingSpec supported for reshard.")
    ELSE IF Len(st.local_shards) = 0
    THEN Raise("NotImplementedError", "Only single local shard supported for reshard.")
    ELSE NoError

\* The checks reshard makes before it communicates.
ReshardUnsupported(st, resharding_spec) ==
    IF resharding_spec.kind # "ChunkShardingSpec"
       \/ st.sharding_spec.kind # "ChunkShardingSpec"
    THEN Raise("NotImplementedError", "Only ChunkShardingSpec supported for reshard.")
    ELSE IF Len(st.local_shards) # 1
    THEN Raise("NotImplementedError", "Only single local shard supported for reshard.")
    ELSE NoError

\* The element of the logical tensor at a global index, read from the tensor
\* the owner of that index handed in (sent[q] is the local tensor of rank q).
ExchangedValue(current_shards, sent, idx) ==
    LET k == CHOOSE k \in DOMAIN current_shards : idx \in Box(current_shards[k])
        m == current_shards[k]
    IN sent[m.placement.rank].data[SubIdx(idx, m.shard_offsets)]

\* The shards participant r holds after the exchange: the shards the new
\* layout places on it, filled from the tensors of their current owners.
ExchangedShards(r, local_tensor, current_shards, new_shards, sent) ==
    LET mine == SelectSeq(new_shards, LAMBDA m : m.placement.rank = r)
    IN [i \in DOMAIN mine |->
          Shard([local_tensor EXCEPT
                    !.size = mine[i].shard_sizes,
                    !.device = mine[i].placement.device,
                    !.data = [idx \in Indices(mine[i].shard_sizes) |->
                                 ExchangedValue(current_shards, sent,
                                                AddIdx(mine[i].shard_offsets, idx))]],
                mine[i])]

\* reshuffle_local_shard (same dimension) and reshard_local_shard (another
\* dimension): the new local shards and the new shards_metadata.
ReshuffleLocalShard(r, local_tensor, st_size, sharding_spec, resharding_spec, sent) ==
    LET current == BuildMetadata(sharding_spec, st_size, None).value.shards_metadata
        new == BuildMetadata(resharding_spec, st_size, None).value.shards_metadata
    IN <<ExchangedShards(r, local_tensor, current, new, sent), new>>

ReshardLocalShard(r, local_tensor, st_size, sharding_spec, resharding_spec, sent) ==
    LET current == BuildMetadata(sharding_spec, st_size, None).value.shards_metadata
        new == BuildMetadata(resharding_spec, st_size, None).value.shards_metadata
    IN <<ExchangedShards(r, local_tensor, current, new, sent), new>>

\* A reshard that goes to the exchange whatever the new spec.
ReshardIsNoOpNever(st, resharding_spec) == FALSE

\* Whether reshard returns self without communicating.
ReshardIsNoOp(st, resharding_spec) ==
    /\ st.sharding_spec.dim = resharding_spec.dim
    /\ st.sharding_spec.placements = resharding_spec.placements

\* A reshard that replaces the shards and the shard list of the metadata and
\* keeps the old sharding spec.
ReshardedKeepingSpec(st, exchanged, resharding_spec) ==
    [st EXCEPT !.local_shards = exchanged[1],
               !.metadata.shards_metadata = exchanged[2]]

\* A reshard that installs the new local shards and leaves the metadata and the
\* spec as they were.
ReshardedShardsOnly(st, exchanged, resharding_spec) ==
    [st EXCEPT !.local_shards = exchanged[1]]

\* A reshard that installs the new metadata and spec but no local shard.
ReshardedDroppingShards(st, exchanged, resharding_spec) ==
    [st EXCEPT !.local_shards = <<>>,
               !.metadata.shards_metadata = exchanged[2],
               !.sharding_spec = resharding_spec]

\* A reshard that also empties the table of remote shards.
ReshardedForgettingRemoteShards(st, exchanged, resharding_spec) ==
    [st EXCEPT !.local_shards = exchanged[1],
               !.metadata.shards_metadata = exchanged[2],
               !.sharding_spec = resharding_spec,
               !.remote_shards = <<>>]

\* The three assignments that end reshard.
Resharded(st, exchanged, resharding_spec) ==
    [st EXCEPT !.local_shards = exchanged[1],
               !.metadata.shards_metadata = exchanged[2],
               !.sharding_spec = resharding_spec]

\* reshard(resharding_spec) on participant r, up to the exchange.
ReshardCall(r) ==
    /\ pc[r] = "live"
    /\ ncalls[r] < Len(world.program)
    /\ LET resharding_spec == world.program[ncalls[r] + 1]
           unsupported == ReshardUnsupported(inst[r], resharding_spec)
           built == BuildMetadata(resharding_spec, inst[r].metadata.size, None)
       IN IF unsupported.type # "NoError"
          THEN /\ err' = [err EXCEPT ![r] = unsupported]
               /\ ncalls' = [ncalls EXCEPT ![r] = @ + 1]
               /\ UNCHANGED <<pc, xbuf>>
          ELSE IF ReshardIsNoOp(inst[r], resharding_spec)
          THEN /\ err' = [err EXCEPT ![r] = NoError]
               /\ ncalls' = [ncalls EXCEPT ![r] = @ + 1]
               /\ UNCHANGED <<pc, xbuf>>
          ELSE IF ~built.ok
          THEN /\ err' = [err EXCEPT ![r] = built.error]
               /\ ncalls' = [ncalls EXCEPT ![r] = @ + 1]
               /\ UNCHANGED <<pc, xbuf>>
          ELSE /\ xbuf' = [xbuf EXCEPT ![r] = Append(@, inst[r].local_shards[1].tensor)]
               /\ pc' = [pc EXCEPT ![r] = "exchange"]
               /\ UNCHANGED <<err, ncalls>>
    /\ UNCHANGED <<world, dispatch, kept, registry, inst, agbuf, gbuf, out>>

\* The exchange completes on participant r once every participant has handed
\* in its tensor; reshard then replaces the three fields and returns.
ReshardExchanged(r) ==
    /\ pc[r] = "exchange"
    /\ \A q \in Ranks : Len(xbuf[q]) >= Len(xbuf[r])
    /\ LET resharding_spec == world.program[ncalls[r] + 1]
           sent == [q \in Ranks |-> xbuf[q][Len(xbuf[r])]]
           st == inst[r]
           exchanged ==
               IF st.sharding_spec.dim = resharding_spec.dim
               THEN ReshuffleLocalShard(r, st.local_shards[1].tensor, st.metadata.size,
                                        st.sharding_spec, resharding_spec, sent)
               ELSE ReshardLocalShard(r, st.local_shards[1].tensor, st.metadata.size,
                                      st.sharding_spec, resharding_spec, sent)
       IN inst' = [inst EXCEPT ![r] = Resharded(st, exchanged, resharding_spec)]
    /\ pc' = [pc EXCEPT ![r] = "live"]
    /\ err' = [err EXCEPT ![r] = NoError]
    /\ ncalls' = [ncalls EXCEPT ![r] = @ + 1]
    /\ UNCHANGED <<world, dispatch, kept, registry, agbuf, gbuf, out, xbuf>>

\* The exchange raises on participant r: reshuffle_local_shard or
\* reshard_local_shard does not return, the exception leaves reshard before its
\* three assignments. The participant makes no further call: its peers may
\* have completed the exchange, and the group no longer agrees on the layout.
ReshardExchangeFailed(r) ==
    /\ pc[r] = "exchange"
    /\ pc' = [pc EXCEPT ![r] = "raised"]
    /\ err' = [err EXCEPT ![r] = Raise("RuntimeError", "the exchange failed")]
    /\ ncalls' = [ncalls EXCEPT ![r] = @ + 1]
    /\ UNCHANGED <<world, dispatch, kept, registry, inst, agbuf, gbuf, out, xbuf>>

Next ==
    \/ \E r \in Ranks : Construct(r)
    \/ \E r \in Ranks : InitFromLocalShards(r)
    \/ \E r \in Ranks : InitFromLocalShardsGathered(r)
    \/ \E r \in Ranks : InitFromMetadata(r)

Spec == Init /\ [][Next]_vars

(***************************************************************************)
(* Construction followed by the reshard calls of the client's program.     *)
(***************************************************************************)
MaxReshards == 1

\* The specs a client reshards to.
ReshardTargets(W) ==
    {ChunkShardingSpec(d, [i \in 1..W |-> Placement(i - 1, "cpu")]) : d \in 0..1}
    \cup {ChunkShardingSpec(0, [i \in 1..W |-> Placement(W - i, "cpu")])}

Programs(W) == UNION {[1..n -> ReshardTargets(W)] : n \in 0..MaxReshards}

\* Every world of the largest size, and with a program those where the
\* participants hold what they agreed on.
LifeWorlds ==
    LET largest == {v \in Worlds : v.size[1] = MaxRows /\ v.dtype = "None"}
    IN largest
       \cup UNION {{[w EXCEPT !.program = p] : p \in Programs(w.W)} :
                   w \in {v \in largest :
                             /\ v.variant = Agreed
                             /\ v.proto = "spec" =>
                                   v.sharding_spec \in AgreedSpecs(v.W, v.size)}}

InitLife == InitWith(LifeWorlds)

NextLife ==
    \/ \E r \in Ranks : Construct(r)
    \/ \E r \in Ranks : InitFromLocalShards(r)
    \/ \E r \in Ranks : InitFromLocalShardsGathered(r)
    \/ \E r \in Ranks : InitFromMetadata(r)
    \/ \E r \in Ranks : ReshardCall(r)
    \/ \E r \in Ranks : ReshardExchanged(r)

SpecLife == InitLife /\ [][NextLife]_vars



(***************************************************************************)
(* __getstate__ and __setstate__.                                          *)
(***************************************************************************)
\* None where a list of shards is expected. A list of shards holds Shards only,
\* so no list of shards equals this value.
NoneList == <<None>>

ProcessGroupState(local_rank, global_rank, local_world_size, global_world_size) ==
    [local_rank |-> local_rank, global_rank |-> global_rank,
     local_world_size |-> local_world_size, global_world_size |-> global_world_size]

\* __getstate__ of the instance st of participant rank in a group of world_size
\* (the group is the default group: local and global values are the same).
GetState(st, rank, world_size) ==
    [local_shards |-> st.local_shards, metadata |-> st.metadata,
     pg_state |-> ProcessGroupState(rank, rank, world_size, world_size),
     sharding_spec |-> st.sharding_spec, init_rrefs |-> st.init_rrefs]

\* __setstate__ on participant rank of a group of world_size: the fields are
\* taken from the state as they are, then the four values of pg_state are
\* compared with the current group. _remote_shards is not assigned.
SetStateResult(state, rank, world_size) ==
    IF state.pg_state.local_rank # rank
    THEN Failed(Raise("RuntimeError", "Local rank at save time"))
    ELSE IF state.pg_state.global_rank # rank
    THEN Failed(Raise("RuntimeError", "Global rank at save time"))
    ELSE IF state.pg_state.local_world_size # world_size
    THEN Failed(Raise("RuntimeError", "Local world size at save time"))
    ELSE IF state.pg_state.global_world_size # world_size
    THEN Failed(Raise("RuntimeError", "Global world size at save time"))
    ELSE Ok([init_rrefs |-> state.init_rrefs, sharded_tensor_id |-> NoId,
             process_group |-> DefaultGroup,
             local_shards |-> state.local_shards, remote_shards |-> NoAttribute,
             metadata |-> state.metadata, sharding_spec |-> state.sharding_spec])

\* The state a participant may be handed to load: what participant s saved of
\* the agreed layout, as saved or with the list of local shards missing.
SavedState(s, missing) ==
    LET md == Layout(world.agreed_spec, world.size)
        saved == GetState(InitFromLocalShardsAndGlobalMetadata(
                              HeldShards(md, s), md, s, FALSE).value, s, world.W)
    IN IF missing THEN [saved EXCEPT !.local_shards = NoneList] ELSE saved

\* Unpickling a ShardedTensor on participant r.
SetState(r) ==
    /\ pc[r] = "new"
    /\ world.proto = "load"
    /\ \E s \in Ranks, missing \in BOOLEAN :
          Return(r, SetStateResult(SavedState(s, missing), r, world.W))
    /\ UNCHANGED <<world, dispatch, kept, registry, agbuf, gbuf, out, xbuf, ncalls>>

(***************************************************************************)
(* gather.                                                                 *)
(***************************************************************************)
\* _validate_output_tensor_for_gather: out is a tensor of the full size on the
\* destination and None on every other participant.
ValidateOutputTensorForGather(my_rank, dst_rank, size, dst_tensor) ==
    IF dst_rank = my_rank
    THEN IF IsNone(dst_tensor)
         THEN Raise("ValueError", "out must be provided on the destination rank")
         ELSE IF dst_tensor.size # size
         THEN Raise("ValueError", "out has not the size of the sharded tensor")
         ELSE NoError
    ELSE IF ~IsNone(dst_tensor)
         THEN Raise("ValueError", "out must be None on a non-destination rank")
         ELSE NoError

\* A gather that goes to gather_object without a look at out.
GatherValidationLeftOut(st, rank, dst, out_tensor) == NoError

\* The first lines of gather: the rank, the full size from the metadata of the
\* instance, and the validation of out against them.
GatherValidation(st, rank, dst, out_tensor) ==
    LET full_size == st.metadata.size
    IN ValidateOutputTensorForGather(rank, dst, full_size, out_tensor)

\* A buffer nothing has been written to: every element holds -1, a value no
\* shard holds.
Blank(size) ==
    Tensor(size, "strided", TRUE, FALSE, "cpu", "float32", FALSE,
           [idx \in Indices(size) |-> -1])

\* What a client may pass as out for a sharded tensor of the given size.
OutArguments(full_size) ==
    {None, Blank(full_size), Blank([full_size EXCEPT ![1] = @ + 1])}

\* The narrow of out to the box of the shard, dimension by dimension, and the
\* copy_ of the shard's tensor into it.
CopyShard(out_tensor, shard) ==
    LET metadata == shard.metadata
        tensor == shard.tensor
    IN IF \E dim \in DOMAIN out_tensor.size :
              \/ metadata.shard_offsets[dim] < 0
              \/ metadata.shard_offsets[dim] + metadata.shard_sizes[dim]
                     > out_tensor.size[dim]
       THEN [out |-> out_tensor, err |-> Raise("RuntimeError", "narrow out of range")]
       ELSE IF tensor.size # metadata.shard_sizes
       THEN [out |-> out_tensor, err |-> Raise("RuntimeError", "copy_ of another size")]
       ELSE [out |-> [out_tensor EXCEPT !.data =
                         [idx \in DOMAIN @ |->
                             IF idx \in Box(metadata)
                             THEN tensor.data[SubIdx(idx, metadata.shard_offsets)]
                             ELSE @[idx]]],
             err |-> NoError]

\* The inner loop of gather: the shards of one participant, in list order.
RECURSIVE CopyShards(_, _)
CopyShards(out_tensor, shards) ==
    IF shards = <<>> THEN [out |-> out_tensor, err |-> NoError]
    ELSE LET copied == CopyShard(out_tensor, Head(shards))
         IN IF copied.err.type # "NoError" THEN copied
            ELSE CopyShards(copied.out, Tail(shards))

\* A loop that passes over a list of shards that is None.
RECURSIVE CopyGatheredSkippingNone(_, _)
CopyGatheredSkippingNone(out_tensor, gathered_shards) ==
    IF gathered_shards = <<>> THEN [out |-> out_tensor, err |-> NoError]
    ELSE IF Head(gathered_shards) = NoneList
    THEN CopyGatheredSkippingNone(out_tensor, Tail(gathered_shards))
    ELSE LET copied == CopyShards(out_tensor, Head(gathered_shards))
         IN IF copied.err.type # "NoError" THEN copied
            ELSE CopyGatheredSkippingNone(copied.out, Tail(gathered_shards))

\* The outer loop of gather: the lists of the participants in rank order; a
\* list that is None raises, after the lists before it have been copied.
RECURSIVE CopyGathered(_, _)
CopyGathered(out_tensor, gathered_shards) ==
    IF gathered_shards = <<>> THEN [out |-> out_tensor, err |-> NoError]
    ELSE IF Head(gathered_shards) = NoneList
    THEN [out |-> out_tensor,
          err |-> Raise("RuntimeError", "Gathered shards cannot be None on dst rank")]
    ELSE LET copied == CopyShards(out_tensor, Head(gathered_shards))
         IN IF copied.err.type # "NoError" THEN copied
            ELSE CopyGathered(copied.out, Tail(gathered_shards))

\* A gather that copies on every participant, the destination or not.
GatherFinishOnEveryRank(rank, dst, out_tensor, gathered_shards) ==
    IF IsNone(out_tensor)
    THEN [out |-> out_tensor,
          err |-> Raise("ValueError", "out Tensor must be provided on dst rank!")]
    ELSE CopyGathered(out_tensor, gathered_shards)

\* gather after gather_object has returned: only the destination copies.
GatherFinish(rank, dst, out_tensor, gathered_shards) ==
    IF rank # dst THEN [out |-> out_tensor, err |-> NoError]
    ELSE IF IsNone(out_tensor)
    THEN [out |-> out_tensor,
          err |-> Raise("ValueError", "out Tensor must be provided on dst rank!")]
    ELSE CopyGathered(out_tensor, gathered_shards)

\* What gather_object has handed over for a participant.
Sent(obj) == [kind |-> "Sent", obj |-> obj]

\* gathered_shards of participant r once gather_object has returned: the list
\* of every participant in rank order on the destination, nothing elsewhere.
GatheredShards(r) ==
    IF r = world.dst THEN [i \in 1..world.W |-> gbuf[i - 1].obj] ELSE <<>>

\* gather(dst, out) on participant r, up to gather_object: the validation of
\* out comes first, a participant that fails it hands nothing over.
GatherCall(r) ==
    /\ pc[r] = "live"
    /\ \E o \in OutArguments(inst[r].metadata.size) :
          LET bad == GatherValidation(inst[r], r, world.dst, o)
          IN /\ out' = [out EXCEPT ![r] = o]
             /\ IF bad.type # "NoError"
                THEN /\ pc' = [pc EXCEPT ![r] = "raised"]
                     /\ err' = [err EXCEPT ![r] = bad]
                     /\ UNCHANGED gbuf
                ELSE /\ pc' = [pc EXCEPT ![r] = "gather"]
                     /\ gbuf' = [gbuf EXCEPT ![r] = Sent(inst[r].local_shards)]
                     /\ UNCHANGED err
    /\ UNCHANGED <<world, dispatch, kept, registry, inst, agbuf, xbuf, ncalls>>

\* gather_object returns on participant r once every participant has handed
\* its shards over; the destination then copies them into out.
GatherReturn(r) ==
    /\ pc[r] = "gather"
    /\ \A q \in Ranks : gbuf[q] # Unset
    /\ LET done == GatherFinish(r, world.dst, out[r], GatheredShards(r))
       IN /\ out' = [out EXCEPT ![r] = done.out]
          /\ err' = [err EXCEPT ![r] = done.err]
          /\ pc' = [pc EXCEPT ![r] = IF done.err.type = "NoError"
                                     THEN "gathered" ELSE "raised"]
    /\ UNCHANGED <<world, dispatch, kept, registry, inst, agbuf, gbuf, xbuf, ncalls>>

(***************************************************************************)
(* Construction or loading followed by one gather.                         *)
(***************************************************************************)
\* 4 participants, size [8, 4], chunks of dimension 0 placed in rank order.
ScenarioSpec == ChunkShardingSpec(0, [i \in 1..4 |-> Placement(i - 1, "cpu")])

ScenarioWorlds ==
    {[World(4, "spec", <<8, 4>>, ScenarioSpec, Agreed) EXCEPT !.sharding_spec = ScenarioSpec],
     [World(4, "lsgm", <<8, 4>>, ScenarioSpec, Agreed) EXCEPT
         !.local_shards = Held(Layout(ScenarioSpec, <<8, 4>>), 4),
         !.metadata = Layout(ScenarioSpec, <<8, 4>>)]}

\* The participants load what they saved of the chunks of dimension 0, placed in
\* rank order.
LoadWorlds ==
    {World(W, "load", <<MaxRows, 2>>,
           ChunkShardingSpec(0, [i \in 1..Min(W, MaxPlacements) |-> Placement(i - 1, "cpu")]),
           Agreed) : W \in 1..MaxRanks}

GatherWorlds ==
    ScenarioWorlds
    \cup UNION {{[w EXCEPT !.dst = d] : d \in 0..(w.W - 1)} :
                w \in {v \in Worlds \cup LoadWorlds :
                          /\ v.size[1] = MaxRows
                          /\ v.dtype = "None"
                          /\ v.variant.kind \in {"agreed", "twice"}
                          /\ v.proto # "spec"}}

InitGather == InitWith(GatherWorlds)

NextGather ==
    \/ \E r \in Ranks : Construct(r)
    \/ \E r \in Ranks : InitFromLocalShards(r)
    \/ \E r \in Ranks : InitFromLocalShardsGathered(r)
    \/ \E r \in Ranks : InitFromMetadata(r)
    \/ \E r \in Ranks : SetState(r)
    \/ \E r \in Ranks : GatherCall(r)
    \/ \E r \in Ranks : GatherReturn(r)

SpecGather == InitGather /\ [][NextGather]_vars

(***************************************************************************)
(* The registry of sharded tensors and the registration of remote shards.  *)
(* Every participant is a process with its own lock, counter and map; an   *)
(* object of a process is constructed or loaded by a thread of its own,    *)
(* and inbound calls are handled by threads of the RPC agent.              *)
(***************************************************************************)
MaxObjects == 2        \* objects a process makes: 1..MaxObjects

\* rpc.RRef(shard) of the k-th local shard of participant owner.
RRef(owner, k) == [owner |-> owner, shard |-> k]

\* A call of _register_remote_shards sent to participant to; obj is the object
\* of the sender it was sent for, 0 for a call outside the protocol.
Call(to, sender, sharded_tensor_id, obj, rrefs) ==
    [to |-> to, sender |-> sender, id |-> sharded_tensor_id, obj |-> obj,
     rrefs |-> rrefs, state |-> "sent", error |-> NoError]

CallKey(c) == <<c.to, c.sender, c.id, c.obj>>

\* The objects of process p whose weak handle is dead: the last reference to
\* them is gone.
Expired(p) == {o \in DOMAIN opc[p] : opc[p][o] \in {"expired", "deleting", "deleted"}}

\* Lines 194-196 with a counter that is not advanced.
PostInitRegisteredSameId(st, o, current_id, map) ==
    [st |-> [st EXCEPT !.sharded_tensor_id = current_id],
     map |-> (current_id :> o) @@ map,
     current_id |-> current_id]

\* The three statements of _post_init under the lock: the object takes the
\* current identifier, the map gets a weak handle to it, the counter advances.
PostInitRegistered(st, o, current_id, map) ==
    [st |-> [st EXCEPT !.sharded_tensor_id = current_id],
     map |-> (current_id :> o) @@ map,
     current_id |-> current_id + 1]

\* A __del__ that leaves the map as it is.
DelPoppedNothing(st, map) == map

\* __del__ under the lock: the identifier of the object is popped if the map
\* has it.
DelPopped(st, map) ==
    IF st.sharded_tensor_id \in DOMAIN map
    THEN [i \in (DOMAIN map) \ {st.sharded_tensor_id} |-> map[i]]
    ELSE map

\* ShardedTensor._register_remote_shards: self._remote_shards[rpc_rank] =
\* remote_shards, an AttributeError on an object that has no _remote_shards.
RegisterRemoteShardsOf(st, remote_shards, rpc_rank) ==
    IF st.remote_shards = NoAttribute
    THEN Failed(Raise("AttributeError", "ShardedTensor object has no attribute _remote_shards"))
    ELSE Ok([st EXCEPT !.remote_shards = (rpc_rank :> remote_shards) @@ @])

\* A handler that stores nothing.
RegisterRemoteShardsDropped(map, objects, expired, sharded_tensor_id, rrefs, rpc_rank) ==
    Ok(objects)

\* _register_remote_shards under the lock: the objects of the process after
\* the call, or the exception it raises. expired is the objects whose weak
\* handle returns None.
RegisterRemoteShards(map, objects, expired, sharded_tensor_id, rrefs, rpc_rank) ==
    IF sharded_tensor_id \notin DOMAIN map
    THEN Failed(Raise("RuntimeError", "Could not find sharded_tensor_id"))
    ELSE IF map[sharded_tensor_id] \in expired
    THEN Failed(Raise("RuntimeError", "ShardedTensor weakref has been deallocated"))
    ELSE LET stored == RegisterRemoteShardsOf(objects[map[sharded_tensor_id]], rrefs, rpc_rank)
         IN IF stored.ok
            THEN Ok([objects EXCEPT ![map[sharded_tensor_id]] = stored.value])
            ELSE stored

\* A loop that calls every peer, with an empty list when there is no local shard.
RemoteShardCallsToAll(st, o, rank, world_size, all_tensor_ids) ==
    {Call(to, rank, all_tensor_ids[to], o, [k \in DOMAIN st.local_shards |-> RRef(rank, k)]) :
        to \in (0..(world_size - 1)) \ {rank}}

\* The loop of _init_rpc over the ranks: a participant that has local shards
\* calls every rank but its own, with the identifier that rank handed in.
RemoteShardCalls(st, o, rank, world_size, all_tensor_ids) ==
    {Call(to, rank, all_tensor_ids[to], o, [k \in DOMAIN st.local_shards |-> RRef(rank, k)]) :
        to \in {q \in (0..(world_size - 1)) \ {rank} : Len(st.local_shards) # 0}}

\* What participant p saved of an instance it had constructed with init_rrefs.
SavedWithRRefs(p) == [SavedState(p, FALSE) EXCEPT !.init_rrefs = TRUE]

\* The thread of object o of process p runs the constructor up to _post_init,
\* or __setstate__ up to _post_init, and the test of _init_rrefs there.
Create(p, o) ==
    /\ opc[p][o] = "new"
    /\ LET result ==
               IF world.objects[o] = "loaded"
               THEN SetStateResult(SavedWithRRefs(p), p, world.W)
               ELSE ShardedTensorInit(p, world.sharding_spec, world.size, world.dtype,
                                      world.layout, FALSE, FALSE, world.memory_format,
                                      world.objects[o] = "rrefs", 0)
       IN /\ objs' = [objs EXCEPT ![p][o] = IF result.ok THEN result.value ELSE NoInstance]
          /\ opc' = [opc EXCEPT ![p][o] =
                        IF ~result.ok THEN "raised"
                        ELSE IF result.value.init_rrefs THEN "post_init" ELSE "live"]
    /\ UNCHANGED <<world, dispatch, pc, inst, err, agbuf, gbuf, out, xbuf, ncalls, kept>>
    /\ UNCHANGED <<sharded_tensor_lock, sharded_tensor_current_id, sharded_tensor_map,
                   all_ids, barrier, rpcs>>

\* _post_init enters the with block: the thread acquires the lock.
PostInitLock(p, o) ==
    /\ opc[p][o] = "post_init"
    /\ sharded_tensor_lock[p] = Free
    /\ sharded_tensor_lock' = [sharded_tensor_lock EXCEPT ![p] = Thread("init", o, <<>>)]
    /\ opc' = [opc EXCEPT ![p][o] = "registering"]
    /\ UNCHANGED <<world, dispatch, pc, inst, err, agbuf, gbuf, out, xbuf, ncalls, kept>>
    /\ UNCHANGED <<sharded_tensor_current_id, sharded_tensor_map, objs, all_ids, barrier, rpcs>>

\* A _post_init that goes on to _init_rpc with the lock held.
PostInitRegisterKeepingLock(p, o) ==
    /\ opc[p][o] = "registering"
    /\ LET done == PostInitRegistered(objs[p][o], o, sharded_tensor_current_id[p],
                                      sharded_tensor_map[p])
       IN /\ objs' = [objs EXCEPT ![p][o] = done.st]
          /\ sharded_tensor_map' = [sharded_tensor_map EXCEPT ![p] = done.map]
          /\ sharded_tensor_current_id' = [sharded_tensor_current_id EXCEPT ![p] = done.current_id]
    /\ opc' = [opc EXCEPT ![p][o] = "registered"]
    /\ UNCHANGED <<world, dispatch, pc, inst, err, agbuf, gbuf, out, xbuf, ncalls, kept>>
    /\ UNCHANGED <<sharded_tensor_lock, all_ids, barrier, rpcs>>

\* The body of the with block of _post_init and its end: the object is
\* registered and the lock released.
PostInitRegister(p, o) ==
    /\ opc[p][o] = "registering"
    /\ LET done == PostInitRegistered(objs[p][o], o, sharded_tensor_current_id[p],
                                      sharded_tensor_map[p])
       IN /\ objs' = [objs EXCEPT ![p][o] = done.st]
          /\ sharded_tensor_map' = [sharded_tensor_map EXCEPT ![p] = done.map]
          /\ sharded_tensor_current_id' = [sharded_tensor_current_id EXCEPT ![p] = done.current_id]
    /\ sharded_tensor_lock' = [sharded_tensor_lock EXCEPT ![p] = Free]
    /\ opc' = [opc EXCEPT ![p][o] = "registered"]
    /\ UNCHANGED <<world, dispatch, pc, inst, err, agbuf, gbuf, out, xbuf, ncalls, kept>>
    /\ UNCHANGED <<all_ids, barrier, rpcs>>

\* The rest of _post_init and _init_rpc up to the _all_gather of the
\* identifiers: without an RPC agent _post_init raises; else the table of
\* remote shards is set to {} and the identifier handed in.
InitRpc(p, o) ==
    /\ opc[p][o] = "registered"
    /\ IF ~world.rpc_agent
       THEN /\ opc' = [opc EXCEPT ![p][o] = "raised"]
            /\ UNCHANGED <<objs, all_ids>>
       ELSE /\ objs' = [objs EXCEPT ![p][o].remote_shards = <<>>]
            /\ all_ids' = [all_ids EXCEPT ![o][p] = objs[p][o].sharded_tensor_id]
            /\ opc' = [opc EXCEPT ![p][o] = "all_gather"]
    /\ UNCHANGED <<world, dispatch, pc, inst, err, agbuf, gbuf, out, xbuf, ncalls, kept>>
    /\ UNCHANGED <<sharded_tensor_lock, sharded_tensor_current_id, sharded_tensor_map,
                   barrier, rpcs>>

\* An _init_rpc that sends its calls without waiting for the identifiers of
\* the peers.
InitRpcSendBeforeGathered(p, o) ==
    /\ opc[p][o] = "all_gather"
    /\ rpcs' = rpcs \cup RemoteShardCalls(objs[p][o], o, p, world.W, all_ids[o])
    /\ opc' = [opc EXCEPT ![p][o] = "wait_all"]
    /\ UNCHANGED <<world, dispatch, pc, inst, err, agbuf, gbuf, out, xbuf, ncalls, kept>>
    /\ UNCHANGED <<sharded_tensor_lock, sharded_tensor_current_id, sharded_tensor_map,
                   objs, all_ids, barrier>>

\* _all_gather returns once every participant has handed in its identifier;
\* the calls to the peers are sent.
InitRpcSend(p, o) ==
    /\ opc[p][o] = "all_gather"
    /\ \A q \in Ranks : all_ids[o][q] # NoId
    /\ rpcs' = rpcs \cup RemoteShardCalls(objs[p][o], o, p, world.W, all_ids[o])
    /\ opc' = [opc EXCEPT ![p][o] = "wait_all"]
    /\ UNCHANGED <<world, dispatch, pc, inst, err, agbuf, gbuf, out, xbuf, ncalls, kept>>
    /\ UNCHANGED <<sharded_tensor_lock, sharded_tensor_current_id, sharded_tensor_map,
                   objs, all_ids, barrier>>

\* The calls participant p has sent for its object o.
CallsOf(p, o) == {c \in rpcs : c.sender = p /\ c.obj = o}

\* torch.futures.wait_all: it raises when a call has failed, and returns when
\* every call has been answered; the participant then enters the barrier.
InitRpcWaited(p, o) ==
    /\ opc[p][o] = "wait_all"
    /\ \/ /\ \E c \in CallsOf(p, o) : c.state = "failed"
          /\ opc' = [opc EXCEPT ![p][o] = "raised"]
          /\ UNCHANGED barrier
       \/ /\ \A c \in CallsOf(p, o) : c.state = "done"
          /\ opc' = [opc EXCEPT ![p][o] = "barrier"]
          /\ barrier' = [barrier EXCEPT ![o] = @ \cup {p}]
    /\ UNCHANGED <<world, dispatch, pc, inst, err, agbuf, gbuf, out, xbuf, ncalls, kept>>
    /\ UNCHANGED <<sharded_tensor_lock, sharded_tensor_current_id, sharded_tensor_map,
                   objs, all_ids, rpcs>>

\* The _all_gather(None) that ends _init_rpc returns once every participant
\* has entered it.
BarrierPassed(o) == barrier[o] = Ranks

\* An _init_rpc that returns after wait_all, whatever the peers have done.
InitRpcReturnAtOnce(p, o) ==
    /\ opc[p][o] = "barrier"
    /\ opc' = [opc EXCEPT ![p][o] = "live"]
    /\ UNCHANGED <<world, dispatch, pc, inst, err, agbuf, gbuf, out, xbuf, ncalls, kept>>
    /\ UNCHANGED <<sharded_tensor_lock, sharded_tensor_current_id, sharded_tensor_map,
                   objs, all_ids, barrier, rpcs>>

\* _init_rpc, _post_init and the constructor return.
InitRpcReturn(p, o) ==
    /\ opc[p][o] = "barrier"
    /\ BarrierPassed(o)
    /\ opc' = [opc EXCEPT ![p][o] = "live"]
    /\ UNCHANGED <<world, dispatch, pc, inst, err, agbuf, gbuf, out, xbuf, ncalls, kept>>
    /\ UNCHANGED <<sharded_tensor_lock, sharded_tensor_current_id, sharded_tensor_map,
                   objs, all_ids, barrier, rpcs>>

\* The last reference to object o of process p goes away, after its
\* constructor returned or raised: its weak handle is dead from now on.
Expire(p, o) ==
    /\ opc[p][o] \in {"live", "raised"}
    /\ objs[p][o] # NoInstance
    /\ opc' = [opc EXCEPT ![p][o] = "expired"]
    /\ UNCHANGED <<world, dispatch, pc, inst, err, agbuf, gbuf, out, xbuf, ncalls, kept>>
    /\ UNCHANGED <<sharded_tensor_lock, sharded_tensor_current_id, sharded_tensor_map,
                   objs, all_ids, barrier, rpcs>>

\* __del__ enters the with block.
DelLock(p, o) ==
    /\ opc[p][o] = "expired"
    /\ sharded_tensor_lock[p] = Free
    /\ sharded_tensor_lock' = [sharded_tensor_lock EXCEPT ![p] = Thread("del", o, <<>>)]
    /\ opc' = [opc EXCEPT ![p][o] = "deleting"]
    /\ UNCHANGED <<world, dispatch, pc, inst, err, agbuf, gbuf, out, xbuf, ncalls, kept>>
    /\ UNCHANGED <<sharded_tensor_current_id, sharded_tensor_map, objs, all_ids, barrier, rpcs>>

\* The body of the with block of __del__ and its end.
Del(p, o) ==
    /\ opc[p][o] = "deleting"
    /\ sharded_tensor_map' =
           [sharded_tensor_map EXCEPT ![p] = DelPopped(objs[p][o], sharded_tensor_map[p])]
    /\ sharded_tensor_lock' = [sharded_tensor_lock EXCEPT ![p] = Free]
    /\ opc' = [opc EXCEPT ![p][o] = "deleted"]
    /\ UNCHANGED <<world, dispatch, pc, inst, err, agbuf, gbuf, out, xbuf, ncalls, kept>>
    /\ UNCHANGED <<sharded_tensor_current_id, objs, all_ids, barrier, rpcs>>

\* A call of _register_remote_shards that no _init_rpc has sent reaches
\* process p: any identifier the counter of p can have reached, from the rank
\* after p, with a reference to one shard.
StrayCall(p) ==
    /\ world.stray
    /\ \A c \in rpcs : c.obj # 0
    /\ \E id \in 0..Len(world.objects) :
          rpcs' = rpcs \cup {Call(p, p + 1, id, 0, <<RRef(p + 1, 1)>>)}
    /\ UNCHANGED <<world, dispatch, pc, inst, err, agbuf, gbuf, out, xbuf, ncalls, kept>>
    /\ UNCHANGED <<sharded_tensor_lock, sharded_tensor_current_id, sharded_tensor_map,
                   objs, opc, all_ids, barrier>>

\* A thread of the RPC agent of the receiver takes the call c and enters the
\* with block of _register_remote_shards.
HandleLock(c) ==
    /\ c.state = "sent"
    /\ sharded_tensor_lock[c.to] = Free
    /\ sharded_tensor_lock' =
           [sharded_tensor_lock EXCEPT ![c.to] = Thread("rpc", 0, CallKey(c))]
    /\ rpcs' = (rpcs \ {c}) \cup {[c EXCEPT !.state = "locked"]}
    /\ UNCHANGED <<world, dispatch, pc, inst, err, agbuf, gbuf, out, xbuf, ncalls, kept>>
    /\ UNCHANGED <<sharded_tensor_current_id, sharded_tensor_map, objs, opc, all_ids, barrier>>

\* A handler that answers and keeps the lock.
HandleKeepingLock(c) ==
    /\ c.state = "locked"
    /\ LET result == RegisterRemoteShards(sharded_tensor_map[c.to], objs[c.to],
                                          Expired(c.to), c.id, c.rrefs, c.sender)
       IN /\ objs' = IF result.ok THEN [objs EXCEPT ![c.to] = result.value] ELSE objs
          /\ rpcs' = (rpcs \ {c})
                     \cup {IF result.ok THEN [c EXCEPT !.state = "done"]
                           ELSE [c EXCEPT !.state = "failed", !.error = result.error]}
    /\ UNCHANGED <<world, dispatch, pc, inst, err, agbuf, gbuf, out, xbuf, ncalls, kept>>
    /\ UNCHANGED <<sharded_tensor_lock, sharded_tensor_current_id, sharded_tensor_map,
                   opc, all_ids, barrier>>

\* The body of the with block of _register_remote_shards and its end, by
\* return or by exception; the sender gets the answer.
Handle(c) ==
    /\ c.state = "locked"
    /\ LET result == RegisterRemoteShards(sharded_tensor_map[c.to], objs[c.to],
                                          Expired(c.to), c.id, c.rrefs, c.sender)
       IN /\ objs' = IF result.ok THEN [objs EXCEPT ![c.to] = result.value] ELSE objs
          /\ rpcs' = (rpcs \ {c})
                     \cup {IF result.ok THEN [c EXCEPT !.state = "done"]
                           ELSE [c EXCEPT !.state = "failed", !.error = result.error]}
    /\ sharded_tensor_lock' = [sharded_tensor_lock EXCEPT ![c.to] = Free]
    /\ UNCHANGED <<world, dispatch, pc, inst, err, agbuf, gbuf, out, xbuf, ncalls, kept>>
    /\ UNCHANGED <<sharded_tensor_current_id, sharded_tensor_map, opc, all_ids, barrier>>

\* The chunk spec of dimension 0 that places one chunk on each of the owners,
\* in rank order.
OwnedBy(owners) ==
    ChunkShardingSpec(0, [i \in 1..Cardinality(owners) |->
                             Placement(CHOOSE r \in owners :
                                           Cardinality({q \in owners : q < r}) = i - 1,
                                       "cpu")])

\* A world of the registry: W processes that make the objects of the given
\* kinds, each a sharded tensor of the layout of sp.
RegistryWorld(W, sp, objects, stray, rpc_agent) ==
    [World(W, "spec", <<MaxRows, 2>>, sp, Agreed) EXCEPT
        !.sharding_spec = sp, !.objects = objects, !.stray = stray,
        !.rpc_agent = rpc_agent]

\* The registry scenario: 3 participants construct one sharded tensor with
\* init_rrefs, for every set of participants that own a shard.
ScenarioRegistryWorlds ==
    {RegistryWorld(3, OwnedBy(owners), <<"rrefs">>, FALSE, TRUE) :
        owners \in (SUBSET (0..2)) \ {{}}}

\* One process that constructs sharded tensors with init_rrefs ("rrefs") or
\* without ("plain") or loads them ("loaded"), each in a thread of its own,
\* with or without an RPC agent and with or without a call outside the protocol.
TableWorlds ==
    UNION {{RegistryWorld(1, OwnedBy({0}), objects, stray, rpc_agent) :
               objects \in [1..n -> {"rrefs", "plain", "loaded"}],
               stray \in BOOLEAN, rpc_agent \in BOOLEAN} :
           n \in 1..MaxObjects}

\* Two participants that both own a shard load an instance saved with
\* init_rrefs.
LoadedRegistryWorlds == {RegistryWorld(2, OwnedBy({0, 1}), <<"loaded">>, FALSE, TRUE)}

RegistryWorlds == ScenarioRegistryWorlds \cup TableWorlds \cup LoadedRegistryWorlds

InitRegistry == InitWith(RegistryWorlds)

NextRegistry ==
    \/ \E p \in Ranks, o \in DOMAIN world.objects : Create(p, o)
    \/ \E p \in Ranks, o \in DOMAIN world.objects : PostInitLock(p, o)
    \/ \E p \in Ranks, o \in DOMAIN world.objects : PostInitRegister(p, o)
    \/ \E p \in Ranks, o \in DOMAIN world.objects : InitRpc(p, o)
    \/ \E p \in Ranks, o \in DOMAIN world.objects : InitRpcSend(p, o)
    \/ \E p \in Ranks, o \in DOMAIN world.objects : InitRpcWaited(p, o)
    \/ \E p \in Ranks, o \in DOMAIN world.objects : InitRpcReturn(p, o)
    \/ \E p \in Ranks, o \in DOMAIN world.objects : Expire(p, o)
    \/ \E p \in Ranks, o \in DOMAIN world.objects : DelLock(p, o)
    \/ \E p \in Ranks, o \in DOMAIN world.objects : Del(p, o)
    \/ \E p \in Ranks : StrayCall(p)
    \/ \E c \in rpcs : HandleLock(c)
    \/ \E c \in rpcs : Handle(c)

SpecRegistry == InitRegistry /\ [][NextRegistry]_vars

\* The registration protocol alone: every participant of a group constructs
\* (3 participants, every set of owners) or loads (2 participants) one
\* instance with init_rrefs, keeps it for a while and drops it.
ProtocolWorlds == ScenarioRegistryWorlds \cup LoadedRegistryWorlds

InitProtocol == InitWith(ProtocolWorlds)

NextProtocol ==
    \/ \E p \in Ranks, o \in DOMAIN world.objects : Create(p, o)
    \/ \E p \in Ranks, o \in DOMAIN world.objects : PostInitLock(p, o)
    \/ \E p \in Ranks, o \in DOMAIN world.objects : PostInitRegister(p, o)
    \/ \E p \in Ranks, o \in DOMAIN world.objects : InitRpc(p, o)
    \/ \E p \in Ranks, o \in DOMAIN world.objects : InitRpcSend(p, o)
    \/ \E p \in Ranks, o \in DOMAIN world.objects : InitRpcWaited(p, o)
    \/ \E p \in Ranks, o \in DOMAIN world.objects : InitRpcReturn(p, o)
    \/ \E p \in Ranks, o \in DOMAIN world.objects : Expire(p, o)
    \/ \E p \in Ranks, o \in DOMAIN world.objects : DelLock(p, o)
    \/ \E p \in Ranks, o \in DOMAIN world.objects : Del(p, o)
    \/ \E c \in rpcs : HandleLock(c)
    \/ \E c \in rpcs : Handle(c)

\* The call of a constructor or of __setstate__ seen by the position it
\* leaves: a call that has not started starts and ends in one of the three
\* positions of Create.
ConstructorRuns ==
    \E p \in Ranks, o \in DOMAIN world.objects, to \in {"raised", "post_init", "live"} :
        /\ opc[p][o] = "new"
        /\ opc' = [opc EXCEPT ![p][o] = to]

\* The steps of _post_init and _init_rpc of the constructing threads.
RegistrationSteps ==
    \E p \in Ranks, o \in DOMAIN world.objects :
        \/ PostInitLock(p, o)
        \/ PostInitRegister(p, o)
        \/ InitRpc(p, o)
        \/ InitRpcSend(p, o)
        \/ InitRpcWaited(p, o)
        \/ InitRpcReturn(p, o)

\* The steps of the RPC threads that serve _register_remote_shards.
HandlerSteps == \E c \in rpcs : HandleLock(c) \/ Handle(c)

\* Scheduling: a thread that can run does run. A constructor that was called
\* runs, a constructing thread that can take its next step takes it, and an
\* RPC thread that can serve a call serves it. Nothing obliges the garbage
\* collector to drop an instance.
SpecProtocol ==
    /\ InitProtocol
    /\ [][NextProtocol]_vars
    /\ WF_opc(ConstructorRuns)
    /\ WF_vars(RegistrationSteps)
    /\ WF_vars(HandlerSteps)

(***************************************************************************)
(* reshard of an instance that is registered and holds remote references.  *)
(***************************************************************************)
\* Whether the _metadata of objects x and o of a process is one and the same
\* object: _init_from_local_shards_and_global_metadata stores the metadata it
\* is handed without copying it, so two instances made from the same supplied
\* object ("shared") share it; no method assigns _metadata afterwards.
SameMetadataObject(x, o) ==
    x = o \/ (world.objects[x] = "shared" /\ world.objects[o] = "shared")

\* The instances of a process after the three assignments that end the
\* reshard of instance o: self._metadata.shards_metadata is assigned through
\* the reference, so every instance that holds the same metadata object sees
\* the new shard list.
ReshardedInstances(instances, o, exchanged, resharding_spec) ==
    [x \in DOMAIN instances |->
        IF x = o THEN Resharded(instances[o], exchanged, resharding_spec)
        ELSE IF instances[x] # NoInstance /\ SameMetadataObject(x, o)
        THEN [instances[x] EXCEPT !.metadata.shards_metadata = exchanged[2]]
        ELSE instances[x]]

\* _init_from_local_shards_and_global_metadata(local_shards, metadata) for
\* object o of participant p, with the metadata object the application
\* supplies to every such call ("shared") or with a copy of it ("copied").
CreateFromMetadata(p, o) ==
    /\ opc[p][o] = "new"
    /\ world.objects[o] \in {"shared", "copied"}
    /\ LET result == InitFromLocalShardsAndGlobalMetadata(
                         world.local_shards[p], world.metadata, p, FALSE)
       IN /\ objs' = [objs EXCEPT ![p][o] = IF result.ok THEN result.value ELSE NoInstance]
          /\ opc' = [opc EXCEPT ![p][o] = IF result.ok THEN "live" ELSE "raised"]
    /\ UNCHANGED <<world, dispatch, pc, inst, err, agbuf, gbuf, out, xbuf, ncalls, kept>>
    /\ UNCHANGED <<sharded_tensor_lock, sharded_tensor_current_id, sharded_tensor_map,
                   all_ids, barrier, rpcs>>

\* reshard(resharding_spec) on object o of participant p, up to the exchange,
\* once its constructor has returned. The application reshards the first
\* instance of each participant: a collective is called on the same instance
\* by every participant.
ReshardRegisteredCall(p, o) ==
    /\ o = 1
    /\ opc[p][o] = "live"
    /\ ncalls[p] < Len(world.program)
    /\ LET resharding_spec == world.program[ncalls[p] + 1]
           unsupported == ReshardUnsupported(objs[p][o], resharding_spec)
           built == BuildMetadata(resharding_spec, objs[p][o].metadata.size, None)
       IN IF unsupported.type # "NoError"
          THEN /\ err' = [err EXCEPT ![p] = unsupported]
               /\ ncalls' = [ncalls EXCEPT ![p] = @ + 1]
               /\ UNCHANGED <<opc, xbuf>>
          ELSE IF ReshardIsNoOp(objs[p][o], resharding_spec)
          THEN /\ err' = [err EXCEPT ![p] = NoError]
               /\ ncalls' = [ncalls EXCEPT ![p] = @ + 1]
               /\ UNCHANGED <<opc, xbuf>>
          ELSE IF ~built.ok
          THEN /\ err' = [err EXCEPT ![p] = built.error]
               /\ ncalls' = [ncalls EXCEPT ![p] = @ + 1]
               /\ UNCHANGED <<opc, xbuf>>
          ELSE /\ xbuf' = [xbuf EXCEPT ![p] = Append(@, objs[p][o].local_shards[1].tensor)]
               /\ opc' = [opc EXCEPT ![p][o] = "exchange"]
               /\ UNCHANGED <<err, ncalls>>
    /\ UNCHANGED <<world, dispatch, pc, inst, agbuf, gbuf, out, kept>>
    /\ UNCHANGED <<sharded_tensor_lock, sharded_tensor_current_id, sharded_tensor_map,
                   objs, all_ids, barrier, rpcs>>

\* The exchange of the reshard of object o completes on participant p, and
\* the three assignments that end reshard.
ReshardRegisteredExchanged(p, o) ==
    /\ opc[p][o] = "exchange"
    /\ \A q \in Ranks : Len(xbuf[q]) >= Len(xbuf[p])
    /\ LET resharding_spec == world.program[ncalls[p] + 1]
           sent == [q \in Ranks |-> xbuf[q][Len(xbuf[p])]]
           st == objs[p][o]
           exchanged ==
               IF st.sharding_spec.dim = resharding_spec.dim
               THEN ReshuffleLocalShard(p, st.local_shards[1].tensor, st.metadata.size,
                                        st.sharding_spec, resharding_spec, sent)
               ELSE ReshardLocalShard(p, st.local_shards[1].tensor, st.metadata.size,
                                      st.sharding_spec, resharding_spec, sent)
       IN objs' = [objs EXCEPT ![p] = ReshardedInstances(@, o, exchanged, resharding_spec)]
    /\ opc' = [opc EXCEPT ![p][o] = "live"]
    /\ err' = [err EXCEPT ![p] = NoError]
    /\ ncalls' = [ncalls EXCEPT ![p] = @ + 1]
    /\ UNCHANGED <<world, dispatch, pc, inst, agbuf, gbuf, out, xbuf, kept>>
    /\ UNCHANGED <<sharded_tensor_lock, sharded_tensor_current_id, sharded_tensor_map,
                   all_ids, barrier, rpcs>>

\* 2 or 3 participants that own a chunk of rows each construct one instance
\* with init_rrefs and then reshard it once: to the layout it has, to the
\* chunks of columns, or to the chunks of rows in the opposite order.
ReshardRegisteredWorlds ==
    UNION {{[RegistryWorld(W, OwnedBy(0..(W - 1)), <<"rrefs">>, FALSE, TRUE)
                EXCEPT !.program = <<t>>] : t \in ReshardTargets(W)} :
           W \in 2..MaxRanks}

InitReshardRegistered == InitWith(ReshardRegisteredWorlds)

NextReshardRegistered ==
    \/ \E p \in Ranks, o \in DOMAIN world.objects : Create(p, o)
    \/ \E p \in Ranks, o \in DOMAIN world.objects : PostInitLock(p, o)
    \/ \E p \in Ranks, o \in DOMAIN world.objects : PostInitRegister(p, o)
    \/ \E p \in Ranks, o \in DOMAIN world.objects : InitRpc(p, o)
    \/ \E p \in Ranks, o \in DOMAIN world.objects : InitRpcSend(p, o)
    \/ \E p \in Ranks, o \in DOMAIN world.objects : InitRpcWaited(p, o)
    \/ \E p \in Ranks, o \in DOMAIN world.objects : InitRpcReturn(p, o)
    \/ \E c \in rpcs : HandleLock(c)
    \/ \E c \in rpcs : Handle(c)
    \/ \E p \in Ranks, o \in DOMAIN world.objects : ReshardRegisteredCall(p, o)
    \/ \E p \in Ranks, o \in DOMAIN world.objects : ReshardRegisteredExchanged(p, o)

SpecReshardRegistered == InitReshardRegistered /\ [][NextReshardRegistered]_vars

(***************************************************************************)
(* Two instances of a process made from supplied metadata, one resharded.  *)
(***************************************************************************)
\* Every participant makes two instances from the chunks of rows it holds and
\* the global metadata, handing the same metadata object to both calls or a
\* copy to one or both, and reshards the first once.
SharedMetadataWorlds ==
    UNION {{[World(W, "lsgm", <<MaxRows, 2>>, OwnedBy(0..(W - 1)), Agreed) EXCEPT
                !.local_shards = Held(Layout(OwnedBy(0..(W - 1)), <<MaxRows, 2>>), W),
                !.metadata = Layout(OwnedBy(0..(W - 1)), <<MaxRows, 2>>),
                !.objects = kinds,
                !.program = <<t>>] :
               kinds \in [1..2 -> {"shared", "copied"}], t \in ReshardTargets(W)} :
           W \in 2..MaxRanks}

InitSharedMetadata == InitWith(SharedMetadataWorlds)

NextSharedMetadata ==
    \/ \E p \in Ranks, o \in DOMAIN world.objects : CreateFromMetadata(p, o)
    \/ \E p \in Ranks, o \in DOMAIN world.objects : ReshardRegisteredCall(p, o)
    \/ \E p \in Ranks, o \in DOMAIN world.objects : ReshardRegisteredExchanged(p, o)

SpecSharedMetadata == InitSharedMetadata /\ [][NextSharedMetadata]_vars

(***************************************************************************)
(* Loading on a process whose group need not be the group of the save.     *)
(***************************************************************************)
MaxGroup == 2          \* sizes of the groups of a load: 1..MaxGroup

\* The RuntimeError of __setstate__ that names a field of the snapshot, its
\* value at save time and its value at load time.
LoadMismatch(field, saved, loaded) ==
    [type |-> "RuntimeError", what |-> field, saved |-> saved, loaded |-> loaded]

\* A __setstate__ that compares the ranks only.
SetStateComparingRanks(state, is_initialized, now) ==
    IF ~is_initialized
    THEN Failed(Raise("RuntimeError", "Need to initialize default process group"))
    ELSE IF state.pg_state.local_rank # now.local_rank
    THEN Failed(LoadMismatch("Local rank", state.pg_state.local_rank, now.local_rank))
    ELSE IF state.pg_state.global_rank # now.global_rank
    THEN Failed(LoadMismatch("Global rank", state.pg_state.global_rank, now.global_rank))
    ELSE Ok([init_rrefs |-> state.init_rrefs, sharded_tensor_id |-> NoId,
             process_group |-> DefaultGroup,
             local_shards |-> state.local_shards, remote_shards |-> NoAttribute,
             metadata |-> state.metadata, sharding_spec |-> state.sharding_spec])

\* __setstate__ up to its call of _post_init, on a process whose current group
\* gives the four values of now: the test of is_initialized, the assignment of
\* the fields, and the four comparisons in their order.
SetStateChecked(state, is_initialized, now) ==
    IF ~is_initialized
    THEN Failed(Raise("RuntimeError", "Need to initialize default process group"))
    ELSE IF state.pg_state.local_rank # now.local_rank
    THEN Failed(LoadMismatch("Local rank", state.pg_state.local_rank, now.local_rank))
    ELSE IF state.pg_state.global_rank # now.global_rank
    THEN Failed(LoadMismatch("Global rank", state.pg_state.global_rank, now.global_rank))
    ELSE IF state.pg_state.local_world_size # now.local_world_size
    THEN Failed(LoadMismatch("Local world size", state.pg_state.local_world_size,
                             now.local_world_size))
    ELSE IF state.pg_state.global_world_size # now.global_world_size
    THEN Failed(LoadMismatch("Global world size", state.pg_state.global_world_size,
                             now.global_world_size))
    ELSE Ok([init_rrefs |-> state.init_rrefs, sharded_tensor_id |-> NoId,
             process_group |-> DefaultGroup,
             local_shards |-> state.local_shards, remote_shards |-> NoAttribute,
             metadata |-> state.metadata, sharding_spec |-> state.sharding_spec])

\* What the process is handed to load: the state of an instance of the layout
\* of the world, saved in a group that gave the snapshot world.pg_saved.
SavedIn(p) ==
    [SavedState(p, FALSE) EXCEPT !.pg_state = world.pg_saved,
                                 !.init_rrefs = world.saved_rrefs]

\* The thread of object o of process p runs __setstate__ up to _post_init and
\* the test of _init_rrefs there.
Load(p, o) ==
    /\ opc[p][o] = "new"
    /\ LET result == SetStateChecked(SavedIn(p), world.initialized, world.pg_now)
       IN /\ objs' = [objs EXCEPT ![p][o] = IF result.ok THEN result.value ELSE NoInstance]
          /\ err' = [err EXCEPT ![p] = IF result.ok THEN NoError ELSE result.error]
          /\ opc' = [opc EXCEPT ![p][o] =
                        IF ~result.ok THEN "raised"
                        ELSE IF result.value.init_rrefs THEN "post_init" ELSE "live"]
    /\ UNCHANGED <<world, dispatch, pc, inst, agbuf, gbuf, out, xbuf, ncalls, kept>>
    /\ UNCHANGED <<sharded_tensor_lock, sharded_tensor_current_id, sharded_tensor_map,
                   all_ids, barrier, rpcs>>

\* The snapshots a group of at most MaxGroup processes inside a world of at
\* most MaxGroup processes gives to one of its members.
GroupStates ==
    {ProcessGroupState(lr, gr, lws, gws) :
        lr \in 0..(MaxGroup - 1), gr \in 0..(MaxGroup - 1),
        lws \in 1..MaxGroup, gws \in 1..MaxGroup}

\* The snapshots a process can take: its ranks are below the sizes, and its
\* group is no larger than the world.
PossibleGroupStates ==
    {g \in GroupStates :
        /\ g.local_rank < g.local_world_size
        /\ g.global_rank < g.global_world_size
        /\ g.local_world_size <= g.global_world_size}

\* One process loads one saved instance: every snapshot at save time, every
\* group at load time, with and without the default group, the RPC agent and
\* init_rrefs.
GroupLoadWorlds ==
    {[RegistryWorld(1, OwnedBy({0}), <<"loaded">>, FALSE, rpc_agent) EXCEPT
         !.pg_saved = saved, !.pg_now = now, !.initialized = initialized,
         !.saved_rrefs = saved_rrefs] :
        saved \in PossibleGroupStates, now \in PossibleGroupStates,
        rpc_agent \in BOOLEAN, initialized \in BOOLEAN, saved_rrefs \in BOOLEAN}

InitLoad == InitWith(GroupLoadWorlds)

NextLoad ==
    \/ \E p \in Ranks, o \in DOMAIN world.objects : Load(p, o)
    \/ \E p \in Ranks, o \in DOMAIN world.objects : PostInitLock(p, o)
    \/ \E p \in Ranks, o \in DOMAIN world.objects : PostInitRegister(p, o)
    \/ \E p \in Ranks, o \in DOMAIN world.objects : InitRpc(p, o)
    \/ \E p \in Ranks, o \in DOMAIN world.objects : InitRpcSend(p, o)
    \/ \E p \in Ranks, o \in DOMAIN world.objects : InitRpcWaited(p, o)
    \/ \E p \in Ranks, o \in DOMAIN world.objects : InitRpcReturn(p, o)

SpecLoad == InitLoad /\ [][NextLoad]_vars

(***************************************************************************)
(* Custom sharded ops: _register_sharded_op and __torch_function__.        *)
(***************************************************************************)
MaxArgs == 2           \* positional arguments, and keyed arguments: 0..MaxArgs

\* A callable with the given number of parameters.
Callable(name, parameters) == [kind |-> "Callable", name |-> name, parameters |-> parameters]

\* The callables a client registers: two handlers of the expected signature
\* and one of three parameters.
Callables == {Callable("handler1", 4), Callable("handler2", 4), Callable("handler3", 3)}

\* _register_sharded_op: the table after the call, or the TypeError for a
\* callable that does not take 4 parameters.
RegisterShardedOpResult(table, op, func) ==
    IF func.parameters # 4
    THEN Failed(Raise("TypeError", "Custom sharded op function expects signature"))
    ELSE Ok([table EXCEPT ![op] = func])

\* The values an argument of an application can have: a ShardedTensor of one
\* of two process groups, and a list that holds a ShardedTensor (an argument
\* that is no ShardedTensor itself).
ShardedTensorOf(process_group) == [kind |-> "ShardedTensor", process_group |-> process_group]

ListOf(items) == [kind |-> "list", items |-> items]

ArgumentValues ==
    {ShardedTensorOf("group1"), ShardedTensorOf("group2"),
     ListOf(<<ShardedTensorOf("group1")>>)}

\* isinstance(arg, ShardedTensor)
IsShardedTensor(arg) == arg.kind = "ShardedTensor"

\* The keyed arguments: a dict, in the order of its keys, or None (the default
\* of the parameter kwargs).
Kwargs(values) == [kind |-> "dict", values |-> values]

\* The invocation of a handler with its four arguments.
Invocation(handler, types, args, kwargs, process_group) ==
    [handler |-> handler, types |-> types, args |-> args, kwargs |-> kwargs,
     process_group |-> process_group]

\* The RuntimeError that ends __torch_function__, naming the function.
NotSupported(func) == [type |-> "RuntimeError", what |-> "not supported for ShardedTensor", func |-> func]

\* The position of the first ShardedTensor of a sequence of values, 0 if none.
FirstShardedTensor(values) ==
    IF \E i \in DOMAIN values : IsShardedTensor(values[i])
    THEN CHOOSE i \in DOMAIN values :
             /\ IsShardedTensor(values[i])
             /\ \A j \in 1..(i - 1) : ~IsShardedTensor(values[j])
    ELSE 0

\* A __torch_function__ that calls the first handler of the table.
TorchFunctionAnyHandler(table, func, types, args, kwargs) ==
    IF \E op \in Ops : table[op] # NoHandler
    THEN Ok(Invocation(table[CHOOSE op \in Ops : table[op] # NoHandler],
                       types, args, kwargs, "group1"))
    ELSE Failed(NotSupported(func))

\* __torch_function__: the invocation of the handler it returns the result
\* of, or the exception it raises.
TorchFunctionResult(table, func, types, args, kwargs) ==
    IF table[func] # NoHandler
    THEN IF FirstShardedTensor(args) # 0
         THEN Ok(Invocation(table[func], types, args, kwargs,
                            args[FirstShardedTensor(args)].process_group))
         ELSE IF kwargs = None
         THEN Failed(Raise("AttributeError", "NoneType object has no attribute values"))
         ELSE IF FirstShardedTensor(kwargs.values) # 0
         THEN Ok(Invocation(table[func], types, args, kwargs,
                            kwargs.values[FirstShardedTensor(kwargs.values)].process_group))
         ELSE Failed(NotSupported(func))
    ELSE Failed(NotSupported(func))

\* The client registers a handler for an op.
RegisterShardedOp(op, func) ==
    /\ LET result == RegisterShardedOpResult(SHARDED_OPS, op, func)
       IN /\ SHARDED_OPS' = IF result.ok THEN result.value ELSE SHARDED_OPS
          /\ thrown' = IF result.ok THEN NoError ELSE result.error
    /\ UNCHANGED <<world, pc, inst, err, agbuf, gbuf, out, xbuf, ncalls, kept, registry>>
    /\ UNCHANGED <<torch_call, invoked>>

\* The sequences of at most MaxArgs argument values.
ArgumentLists == UNION {[1..n -> ArgumentValues] : n \in 0..MaxArgs}

\* torch hands an application of an op to __torch_function__: the types of
\* its overloaded arguments, its positional and its keyed arguments.
Apply(func, args, kwargs) ==
    /\ torch_call = None
    /\ torch_call' = [func |-> func, types |-> <<"ShardedTensor">>,
                      args |-> args, kwargs |-> kwargs, state |-> "applied"]
    /\ UNCHANGED <<world, pc, inst, err, agbuf, gbuf, out, xbuf, ncalls, kept, registry>>
    /\ UNCHANGED <<SHARDED_OPS, invoked, thrown>>

\* __torch_function__ runs.
TorchFunction ==
    /\ torch_call # None
    /\ torch_call.state = "applied"
    /\ LET result == TorchFunctionResult(SHARDED_OPS, torch_call.func, torch_call.types,
                                         torch_call.args, torch_call.kwargs)
       IN /\ invoked' = IF result.ok THEN Append(invoked, result.value) ELSE invoked
          /\ thrown' = IF result.ok THEN NoError ELSE result.error
    /\ torch_call' = [torch_call EXCEPT !.state = "returned"]
    /\ UNCHANGED <<world, pc, inst, err, agbuf, gbuf, out, xbuf, ncalls, kept, registry>>
    /\ UNCHANGED SHARDED_OPS

\* A process of its own, with no sharded tensor constructed by the model.
DispatchWorlds == {RegistryWorld(1, OwnedBy({0}), <<>>, FALSE, TRUE)}

InitDispatch == InitWith(DispatchWorlds)

NextDispatch ==
    \/ \E op \in Ops, func \in Callables : RegisterShardedOp(op, func)
    \/ \E func \in Ops, args \in ArgumentLists,
          kwargs \in {None} \cup {Kwargs(values) : values \in ArgumentLists} :
          Apply(func, args, kwargs)
    \/ TorchFunction

SpecDispatch == InitDispatch /\ [][NextDispatch]_vars

(***************************************************************************)
(* The claims about construction.                                          *)
(***************************************************************************)
\* The positions of the entries of a metadata placed on rank r.
PlacedOn(md, r) ==
    {i \in DOMAIN md.shards_metadata : md.shards_metadata[i].placement.rank = r}

\* The j-th smallest element of a set of numbers.
Nth(S, j) == CHOOSE i \in S : Cardinality({k \in S : k < i}) = j - 1

Returned(r) == pc[r] \in {"live", "raised"}

\* C1: when every participant constructs from the same spec, size and
\* properties, every participant that has returned holds an instance, all with
\* the same global metadata, and the local shards of each are, in metadata
\* order, the entries of the metadata placed on its rank and no other.
C1_FromSpecOwnShards ==
    world.proto = "spec" =>
        \A r \in Ranks : pc[r] = "live" =>
            /\ \A q \in Ranks :
                  Returned(q) => pc[q] = "live" /\ inst[q].metadata = inst[r].metadata
            /\ LET md == inst[r].metadata
                   local == inst[r].local_shards
               IN /\ Len(local) = Cardinality(PlacedOn(md, r))
                  /\ \A j \in DOMAIN local :
                        local[j].metadata = md.shards_metadata[Nth(PlacedOn(md, r), j)]

\* C1's case: two participants have constructed from one spec, one of them
\* holds two shards and one of them none.
C1_Witness ==
    /\ world.proto = "spec"
    /\ world.W >= 2
    /\ \A r \in Ranks : pc[r] = "live"
    /\ \E r \in Ranks : Len(inst[r].local_shards) = 2
    /\ \E r \in Ranks : Len(inst[r].local_shards) = 0

\* C2: whenever _init_from_local_shards_and_global_metadata succeeds on a
\* participant, every entry the supplied metadata places on its rank is held by
\* exactly one local shard, and every local shard is such an entry.
C2_LocalShardsAreThePlacedEntries ==
    world.proto = "lsgm" =>
        \A r \in Ranks : pc[r] = "live" =>
            LET md == world.metadata
                local == inst[r].local_shards
            IN /\ \A i \in PlacedOn(md, r) :
                     Cardinality({j \in DOMAIN local :
                                     local[j].metadata = md.shards_metadata[i]}) = 1
               /\ \A j \in DOMAIN local :
                     \E i \in PlacedOn(md, r) : md.shards_metadata[i] = local[j].metadata

\* The shards the participants report, each with the place it is held at.
ReportedAt(p) == world.local_shards[p[1]][p[2]].metadata
Reporting == {r \in Ranks : Len(world.local_shards[r]) > 0}

\* Two reported shards have a global index in common.
ReportedOverlap ==
    \E p, q \in Places(world.local_shards) :
        p # q /\ Box(ReportedAt(p)) \cap Box(ReportedAt(q)) # {}

\* A reported shard covers an index outside the global shape its holder states.
ReportedOutside ==
    \E p \in Places(world.local_shards) :
        ~(Box(ReportedAt(p)) \subseteq Indices(world.global_size[p[1]]))

\* Two participants that report shards state different global shapes or
\* different tensor properties.
ReportedConflict ==
    \E r, q \in Reporting :
        \/ world.global_size[r] # world.global_size[q]
        \/ \E f \in {"dtype", "layout", "requires_grad", "pinned"} :
              LET t == world.local_shards[r][1].tensor
                  u == world.local_shards[q][1].tensor
              IN CASE f = "dtype" -> t.dtype # u.dtype
                   [] f = "layout" -> t.layout # u.layout
                   [] f = "requires_grad" -> t.requires_grad # u.requires_grad
                   [] f = "pinned" -> t.pinned # u.pinned

\* C3: when the views the participants report to _init_from_local_shards
\* contain overlapping shards, a shard outside the stated global shape, or
\* conflicting values, no participant ever holds an instance and every
\* participant that returns has raised a ValueError.
C3_InconsistentViewsFailEverywhere ==
    world.proto = "local" /\ (ReportedOverlap \/ ReportedOutside \/ ReportedConflict) =>
        \A r \in Ranks :
            /\ pc[r] # "live"
            /\ inst[r] = NoInstance
            /\ Returned(r) => err[r].type = "ValueError"

\* C3's case: two participants report shards that overlap across participants
\* and both have raised.
C3_Witness ==
    /\ world.proto = "local"
    /\ world.W >= 2
    /\ \E p, q \in Places(world.local_shards) :
          p[1] # q[1] /\ Box(ReportedAt(p)) \cap Box(ReportedAt(q)) # {}
    /\ \A r \in Ranks : pc[r] = "raised"

\* The metadata construction from the agreed spec gives.
FromSpecMetadata ==
    ShardedTensorInit(0, world.agreed_spec, world.size, "None", "strided", FALSE,
                      FALSE, "contiguous_format", FALSE, 0).value.metadata

\* The entries of a list are in non-decreasing order of placement rank.
InRankOrder(shards_metadata) ==
    \A i, j \in DOMAIN shards_metadata :
        i < j => shards_metadata[i].placement.rank <= shards_metadata[j].placement.rank

Entries(shards_metadata) == {shards_metadata[i] : i \in DOMAIN shards_metadata}

BoxesDisjoint(md) ==
    \A i, j \in DOMAIN md.shards_metadata :
        i # j => Box(md.shards_metadata[i]) \cap Box(md.shards_metadata[j]) = {}
BoxesInside(md) ==
    \A i \in DOMAIN md.shards_metadata : Box(md.shards_metadata[i]) \subseteq Indices(md.size)

\* C5: in every reachable state the metadata of every instance, however it was
\* constructed and after every successful reshard, has no two shard boxes that
\* overlap, and every shard box inside [0, size) in every dimension.
C5_BoxesDisjointAndInside ==
    \A r \in Ranks : pc[r] \in {"live", "exchange"} =>
        BoxesDisjoint(inst[r].metadata) /\ BoxesInside(inst[r].metadata)

\* C5's case: every participant has resharded, with an exchange of data, an
\* instance built from local shards and the agreed metadata.
C5_Witness ==
    /\ world.proto = "lsgm"
    /\ world.W >= 2
    /\ \A r \in Ranks : pc[r] = "live" /\ ncalls[r] >= 1 /\ Len(xbuf[r]) >= 1
    /\ \A r \in Ranks : inst[r].metadata # world.metadata

\* The name _raise_if_mismatch has for a tensor attribute.
PropName(f) == IF f = "pinned" THEN "pin_memory" ELSE f

\* The error of participant r names the attribute f of the shard at pos, the
\* value expected, the value found and the rank.
NamesMismatch(r, pos, f) ==
    LET sh == world.local_shards[r][pos]
        e == err[r]
        props == world.metadata.tensor_properties
    IN /\ e.type = "ValueError"
       /\ e.what = "incompatible"
       /\ e.prop_name = PropName(f)
       /\ e.rank = r
       /\ CASE f = "layout" -> e.expected = props.layout /\ e.actual = sh.tensor.layout
            [] f = "contiguous" -> e.expected = TRUE /\ e.actual = sh.tensor.contiguous
            [] f = "size" -> e.expected = sh.metadata.shard_sizes /\ e.actual = sh.tensor.size
            [] f = "pinned" -> e.expected = props.pin_memory /\ e.actual = sh.tensor.pinned
            [] f = "device" -> e.expected = sh.metadata.placement.device
                               /\ e.actual = sh.tensor.device
            [] f = "dtype" -> e.expected = props.dtype /\ e.actual = sh.tensor.dtype
            [] f = "requires_grad" -> e.expected = props.requires_grad
                                      /\ e.actual = sh.tensor.requires_grad

\* The participant whose shard has one attribute changed has returned.
MismatchReturned ==
    /\ world.proto = "lsgm"
    /\ world.variant.kind = "attribute"
    /\ Returned(world.variant.rank)

\* C6 as stated: when one attribute of a local shard, any of the seven, differs
\* from what the metadata declares, construction fails on that participant
\* with an error that names the attribute, the expected value, the actual
\* value and the rank.
C6_EveryMismatchNamed ==
    MismatchReturned =>
        /\ pc[world.variant.rank] = "raised"
        /\ inst[world.variant.rank] = NoInstance
        /\ NamesMismatch(world.variant.rank, world.variant.pos, world.variant.what)

\* C6 amended: when one attribute of a local shard differs from what the
\* metadata declares, construction fails on that participant; for layout,
\* size, pinned memory, device, element type and gradient flag the error names
\* the attribute, the expected value, the actual value and the rank; for
\* contiguity it is the ValueError that only the contiguous memory format is
\* supported, which names none of them.
C6_MismatchNamedButContiguity ==
    MismatchReturned =>
        /\ pc[world.variant.rank] = "raised"
        /\ inst[world.variant.rank] = NoInstance
        /\ IF world.variant.what = "contiguous"
           THEN err[world.variant.rank] =
                    Raise("ValueError",
                          "Only torch.contiguous_format memory_format is currently supported")
           ELSE NamesMismatch(world.variant.rank, world.variant.pos, world.variant.what)

\* C6's case: the second shard of participant 1 has another element type than
\* the metadata declares and participant 1 has raised.
C6_Witness ==
    /\ MismatchReturned
    /\ world.variant = Variant("attribute", 1, 2, "dtype")
    /\ err[1].type = "ValueError"

(***************************************************************************)
(* The claims about gather.                                                *)
(***************************************************************************)
\* Participant r has called gather on its instance.
CalledGather(r) == inst[r] # NoInstance /\ pc[r] \in {"gather", "gathered", "raised"}

\* The shards of every participant, one list, in rank order.
RECURSIVE Flatten(_)
Flatten(lists) == IF lists = <<>> THEN <<>> ELSE Head(lists) \o Flatten(Tail(lists))

\* The orders n shards can be copied in.
Orders(n) == {p \in [1..n -> 1..n] : \A i, j \in 1..n : i # j => p[i] # p[j]}

\* C7: when every participant has called gather with the same destination and
\* the destination passed a buffer of the full size, the buffer holds at every
\* index a shard covers the value the shard holds there, the buffer is the same
\* for every order the gathered shards could be copied in, and with 4
\* participants, size [8, 4] and chunks of dimension 0 it is the local buffers
\* one after the other in rank order.
C7_GatherAssemblesTheShards ==
    pc[world.dst] = "gathered" =>
        LET full == out[world.dst]
            shards == Flatten(GatheredShards(world.dst))
        IN /\ full.size = inst[world.dst].metadata.size
           /\ \A r \in Ranks : \A j \in DOMAIN inst[r].local_shards :
                 LET sh == inst[r].local_shards[j]
                 IN \A idx \in Box(sh.metadata) :
                        full.data[idx] = sh.tensor.data[SubIdx(idx, sh.metadata.shard_offsets)]
           /\ \A p \in Orders(Len(shards)) :
                 CopyShards(Blank(full.size), [i \in DOMAIN shards |-> shards[p[i]]]).out = full
           /\ world.W = 4 =>
                 \A idx \in Indices(<<8, 4>>) :
                     full.data[idx] =
                         inst[idx[1] \div 2].local_shards[1].tensor.data[<<idx[1] % 2, idx[2]>>]

\* Participant r has called gather with an out argument where none belongs, or
\* without one where one belongs.
Misconfigured(r) ==
    /\ CalledGather(r)
    /\ \/ r # world.dst /\ out[r] # None
       \/ r = world.dst /\ out[r] = None

\* C8: a participant that passes an out buffer though it is not the
\* destination, or none though it is, has raised a ValueError and has handed
\* nothing to gather_object.
C8_MisconfiguredGatherFailsFirst ==
    \A r \in Ranks : Misconfigured(r) =>
        /\ pc[r] = "raised"
        /\ err[r].type = "ValueError"
        /\ gbuf[r] = Unset

\* C8's case: a participant that is not the destination has passed a buffer
\* and raised, while the destination waits in gather_object.
C8_Witness ==
    /\ world.W >= 2
    /\ pc[world.dst] = "gather"
    /\ \E r \in Ranks : r # world.dst /\ Misconfigured(r) /\ pc[r] = "raised"

\* C9: a step of gather on participant r, the call or the return, leaves every
\* instance as it was and touches the out buffer of no other participant; the
\* buffer passed to the call is still blank when gather_object is reached, and
\* a participant that is not the destination returns with out as it passed it.
C9_GatherReadOnly ==
    [][\A r \in Ranks :
          inst[r] # NoInstance /\ pc[r] \in {"live", "gather"} /\ pc'[r] # pc[r] =>
              /\ inst' = inst
              /\ \A q \in Ranks : q # r => out'[q] = out[q]
              /\ pc[r] = "live" => out'[r] \in OutArguments(inst[r].metadata.size)
              /\ pc[r] = "gather" /\ r # world.dst =>
                    out'[r] = out[r] /\ pc'[r] = "gathered"]_vars

\* C9's case: two participants have gathered and the destination's buffer has
\* been written to.
C9_Witness ==
    /\ world.W >= 2
    /\ \A r \in Ranks : pc[r] = "gathered"
    /\ \E idx \in DOMAIN out[world.dst].data : out[world.dst].data[idx] # -1

\* A participant has handed None to gather_object in place of its shards.
SentNone(q) == gbuf[q] # Unset /\ gbuf[q].obj = NoneList

\* C10: when the list gathered for some participant is None, gather does not
\* return normally on the destination: once gather_object has returned there,
\* the destination has raised a RuntimeError.
C10_NoneShardsFailOnDestination ==
    (\E q \in Ranks : SentNone(q)) =>
        /\ pc[world.dst] # "gathered"
        /\ pc[world.dst] = "raised" /\ gbuf[world.dst] # Unset =>
              err[world.dst].type = "RuntimeError"

\* C10's case: the destination has copied the shards of one participant into
\* out, met the None of the next, and raised.
C10_Witness ==
    /\ \E q \in Ranks : SentNone(q)
    /\ pc[world.dst] = "raised"
    /\ gbuf[world.dst] # Unset
    /\ \E idx \in DOMAIN out[world.dst].data : out[world.dst].data[idx] # -1
    /\ \E idx \in DOMAIN out[world.dst].data : out[world.dst].data[idx] = -1

(***************************************************************************)
(* gather, reshard, gather: the round trip through two partitionings.      *)
(***************************************************************************)
\* What the client keeps of a gather that has returned: the tensor it passed
\* as out, and the sharding spec the instance had at that time.
Kept(out_tensor, st) == [out |-> out_tensor, sharding_spec |-> st.sharding_spec]

\* The first gather has returned on every participant: the clients keep what it
\* left in out and go on with their programs, and the gather_object of the group
\* is free for the next call.
GatherKept ==
    /\ \A q \in Ranks : pc[q] = "gathered" /\ IsNone(kept[q])
    /\ kept' = [q \in Ranks |-> Kept(out[q], inst[q])]
    /\ pc' = [q \in Ranks |-> "live"]
    /\ gbuf' = [q \in Ranks |-> Unset]
    /\ UNCHANGED <<world, dispatch, registry, inst, err, agbuf, out, xbuf, ncalls>>

\* The participants hold one chunk each of a tensor of distinct elements, laid
\* out by one of the specs they reshard to, and their program is gathers and
\* reshards; the destination is the first or the last participant.
RoundWorlds ==
    UNION {{[w EXCEPT !.program = p, !.dst = d] :
               p \in Programs(w.W), d \in {0, w.W - 1}} :
           w \in {v \in WorldsFromLocalShardsAndGlobalMetadata :
                     /\ v.size[1] = MaxRows
                     /\ v.variant = Agreed
                     /\ v.agreed_spec \in ReshardTargets(v.W)}}

InitRound == InitWith(RoundWorlds)

NextRound ==
    \/ \E r \in Ranks : InitFromMetadata(r)
    \/ \E r \in Ranks : GatherCall(r)
    \/ \E r \in Ranks : GatherReturn(r)
    \/ GatherKept
    \/ \E r \in Ranks : ReshardCall(r)
    \/ \E r \in Ranks : ReshardExchanged(r)

SpecRound == InitRound /\ [][NextRound]_vars

(***************************************************************************)
(* Construction followed by reshard calls, supported or not, whose exchange *)
(* may fail.                                                               *)
(***************************************************************************)
\* The specs a client passes to the reshard of an instance laid out by the spec
\* start: the chunk specs that place one chunk on each participant, the spec
\* of the instance itself, and a spec that is no chunk spec.
ReshardArguments(W, size, start) ==
    ReshardTargets(W) \cup {start} \cup EnumerableSpecs(W, size)

\* The programs of the client: up to MaxReshards reshards, the last of which
\* it may repeat.
ReshardPrograms(W, size, start) ==
    LET programs ==
            UNION {[1..n -> ReshardArguments(W, size, start)] : n \in 0..MaxReshards}
    IN programs \cup {Append(p, p[Len(p)]) : p \in programs \ {<<>>}}

\* The layouts the instances start from: one chunk on each participant, the
\* quadrants, or every chunk on the first participant.
ReshardStarts(W, size) ==
    {sp \in AgreedSpecs(W, size) :
        \/ sp \in ReshardTargets(W)
        \/ sp.kind # "ChunkShardingSpec"
        \/ \A i \in DOMAIN sp.placements : sp.placements[i].rank = 0}

ReshardWorlds ==
    UNION {{[w EXCEPT !.program = p] : p \in ReshardPrograms(w.W, w.size, w.agreed_spec)} :
           w \in {v \in WorldsFromSpec \cup WorldsFromLocalShardsAndGlobalMetadata :
                     /\ v.size[1] = MaxRows
                     /\ v.dtype = "None"
                     /\ v.variant = Agreed
                     /\ v.proto = "spec" => v.sharding_spec = v.agreed_spec
                     /\ v.agreed_spec \in ReshardStarts(v.W, v.size)}}

InitReshard == InitWith(ReshardWorlds)

NextReshard ==
    \/ \E r \in Ranks : Construct(r)
    \/ \E r \in Ranks : InitFromMetadata(r)
    \/ \E r \in Ranks : ReshardCall(r)
    \/ \E r \in Ranks : ReshardExchanged(r)
    \/ \E r \in Ranks : ReshardExchangeFailed(r)

SpecReshard == InitReshard /\ [][NextReshard]_vars

(***************************************************************************)
(* Reshards of instances that hold the elements of one array, the scenario *)
(* of 4 participants among them.                                           *)
(***************************************************************************)
\* The scenario: 4 participants hold the chunks of 2 rows of an array of size
\* [8, 4] and reshard to the chunks of dimension 1 with the same placements.
ScenarioReshardWorlds ==
    {[World(4, "lsgm", <<8, 4>>, ScenarioSpec, Agreed) EXCEPT
         !.local_shards = Held(Layout(ScenarioSpec, <<8, 4>>), 4),
         !.metadata = Layout(ScenarioSpec, <<8, 4>>),
         !.program = <<ChunkShardingSpec(1, ScenarioSpec.placements)>>]}

\* The scenario, and every instance of RoundWorlds with its program of reshards.
RechunkWorlds == ScenarioReshardWorlds \cup RoundWorlds

InitRechunk == InitWith(RechunkWorlds)

NextRechunk ==
    \/ \E r \in Ranks : InitFromMetadata(r)
    \/ \E r \in Ranks : ReshardCall(r)
    \/ \E r \in Ranks : ReshardExchanged(r)

SpecRechunk == InitRechunk /\ [][NextRechunk]_vars

(***************************************************************************)
(* The claims about reshard.                                               *)
(***************************************************************************)
\* The second gather of participant r has returned.
GatheredAgain(r) == pc[r] = "gathered" /\ ~IsNone(kept[r])

\* C11: a gather, a reshard to a new chunk spec (the same dimension with other
\* placements, or the other dimension) and a second gather: the array the
\* second gather leaves on the destination equals the array of the first at
\* every index.
C11_RoundTripPreservesValues ==
    GatheredAgain(world.dst) => out[world.dst] = kept[world.dst].out

\* The second gather returned on the destination of a group of two or more
\* after a reshard to the other dimension, the array holding distinct elements.
C11_Witness ==
    /\ world.W >= 2
    /\ GatheredAgain(world.dst)
    /\ \A r \in Ranks : inst[r].sharding_spec.dim # kept[r].sharding_spec.dim
    /\ \E i, j \in DOMAIN out[world.dst].data :
          out[world.dst].data[i] # out[world.dst].data[j]
    /\ \A i \in DOMAIN out[world.dst].data : out[world.dst].data[i] # -1

\* The spec participant r passes to the reshard call it is to make or is in.
Target(r) == world.program[ncalls[r] + 1]

\* Participant r takes a step of a reshard call from where the client called
\* it: the call returns or raises at once, or goes to the exchange.
ReshardBegins(r) ==
    pc[r] = "live" /\ (ncalls'[r] # ncalls[r] \/ pc'[r] = "exchange")

\* A reshard call of participant r returns or raises in this step.
ReshardEnds(r) == ncalls'[r] # ncalls[r]

\* What reshard replaces: the local shard list, the shard list of the
\* metadata and the sharding spec.
Replaced(st) == <<st.local_shards, st.metadata.shards_metadata, st.sharding_spec>>

\* The three are the new ones after the step: the spec is the one passed, the
\* shard list of the metadata the one built for it, and the local shards those
\* of that list placed on r.
AllNew(r) ==
    LET new == BuildMetadata(Target(r), inst[r].metadata.size, None).value.shards_metadata
    IN /\ inst'[r].sharding_spec = Target(r)
       /\ inst'[r].metadata.shards_metadata = new
       /\ [i \in DOMAIN inst'[r].local_shards |-> inst'[r].local_shards[i].metadata]
              = SelectSeq(new, LAMBDA m : m.placement.rank = r)

\* C12: when a reshard call returns or raises, the local shard list, the shard
\* list of the metadata and the sharding spec of the instance are all three
\* the old ones or all three the new ones; when it raises, as it does when the
\* exchange fails, all three are the old ones.
C12_ReshardAtomic ==
    [][\A r \in Ranks :
          ReshardEnds(r) =>
              /\ Replaced(inst'[r]) = Replaced(inst[r]) \/ AllNew(r)
              /\ err'[r].type # "NoError" => Replaced(inst'[r]) = Replaced(inst[r])]_vars

\* The exchange of the first reshard failed on one participant, which has the
\* old spec, and completed on another, which has the new one.
C12_Witness ==
    \E r, q \in Ranks :
        /\ pc[r] = "raised" /\ ncalls[r] = 1
        /\ err[r] = Raise("RuntimeError", "the exchange failed")
        /\ inst[r].sharding_spec # world.program[1]
        /\ pc[q] = "live" /\ ncalls[q] = 1 /\ err[q] = NoError
        /\ xbuf[q] # <<>>
        /\ inst[q].sharding_spec = world.program[1]

\* The spec passed has the dimension and the placement list of the current one.
SameSpec(st, resharding_spec) ==
    /\ st.sharding_spec.kind = "ChunkShardingSpec"
    /\ resharding_spec.kind = "ChunkShardingSpec"
    /\ st.sharding_spec.dim = resharding_spec.dim
    /\ st.sharding_spec.placements = resharding_spec.placements

\* The call returns the instance as it is, without communication.
IdentityReturn(r) ==
    /\ pc'[r] = "live"
    /\ err'[r] = NoError
    /\ inst'[r] = inst[r]
    /\ xbuf' = xbuf

\* The call raises the unsupported error, without communication, and leaves
\* the instance as it is.
UnsupportedRaised(r) ==
    /\ pc'[r] = "live"
    /\ err'[r].type = "NotImplementedError"
    /\ inst'[r] = inst[r]
    /\ xbuf' = xbuf

\* C13: a reshard with a spec whose dimension and placement list equal those of
\* the current spec, as is a second reshard(S) after a successful reshard(S),
\* communicates nothing, changes nothing and returns the instance.
C13_SameSpecIsIdentity ==
    [][\A r \in Ranks :
          ReshardBegins(r) /\ SameSpec(inst[r], Target(r)) => IdentityReturn(r)]_vars

\* C13, amended: so it is on an instance that holds exactly one local shard;
\* on an instance that holds none or several, the call raises the unsupported
\* error, and communicates nothing and changes nothing either.
C13_SameSpecIsIdentityForOneShard ==
    [][\A r \in Ranks :
          ReshardBegins(r) /\ SameSpec(inst[r], Target(r)) =>
              IF Len(inst[r].local_shards) = 1
              THEN IdentityReturn(r)
              ELSE UnsupportedRaised(r)]_vars

\* A participant has made reshard(S) twice: the first went through the
\* exchange and installed S, the second returned without another exchange.
C13_Witness ==
    \E r \in Ranks :
        /\ pc[r] = "live" /\ ncalls[r] = 2 /\ err[r] = NoError
        /\ world.program[1] = world.program[2]
        /\ world.program[1] # world.agreed_spec
        /\ inst[r].sharding_spec = world.program[2]
        /\ Len(xbuf[r]) = 1

\* The new spec or the current spec is no chunk spec, or the instance does not
\* hold exactly one local shard.
Unsupported(st, resharding_spec) ==
    \/ resharding_spec.kind # "ChunkShardingSpec"
    \/ st.sharding_spec.kind # "ChunkShardingSpec"
    \/ Len(st.local_shards) # 1

\* C14: if the new spec or the current spec is no chunk spec, or the instance
\* does not hold exactly one local shard, reshard raises the unsupported error
\* before it communicates and leaves the local shards, the metadata and the
\* spec as they are.
C14_UnsupportedFailsFast ==
    [][\A r \in Ranks :
          ReshardBegins(r) /\ Unsupported(inst[r], Target(r)) => UnsupportedRaised(r)]_vars

\* One participant holds two local shards and another none, the current and
\* the new spec are chunk specs, and both have been refused the reshard.
C14_Witness ==
    \E r, q \in Ranks :
        /\ world.program # <<>>
        /\ world.program[1].kind = "ChunkShardingSpec"
        /\ pc[r] = "live" /\ ncalls[r] = 1 /\ Len(inst[r].local_shards) = 2
        /\ pc[q] = "live" /\ ncalls[q] = 1 /\ Len(inst[q].local_shards) = 0
        /\ inst[r].sharding_spec.kind = "ChunkShardingSpec"
        /\ \A x \in {r, q} :
              err[x] = Raise("NotImplementedError",
                             "Only single local shard supported for reshard.")

(***************************************************************************)
(* The claims about the registry.                                          *)
(***************************************************************************)
\* Every object of the world is constructed with init_rrefs, and no call
\* reaches a process but those of _init_rpc.
AllWithRRefs ==
    /\ ~world.stray
    /\ \A o \in DOMAIN world.objects : world.objects[o] = "rrefs"

\* The peers of p that hold at least one local shard of object o.
OwningPeers(p, o) ==
    {q \in Ranks \ {p} : opc[q][o] # "new" /\ Len(objs[q][o].local_shards) # 0}

\* C15: when every participant constructs with init_rrefs, then once the
\* construction has returned on a participant, its table of remote shards has
\* an entry for every peer that owns at least one local shard, holding the
\* references to the shards of that peer, and no entry for a peer that owns none.
C15_RemoteShardsOfOwningPeers ==
    AllWithRRefs =>
        \A p \in Ranks, o \in DOMAIN world.objects :
            opc[p][o] = "live" =>
                /\ DOMAIN objs[p][o].remote_shards = OwningPeers(p, o)
                /\ \A q \in OwningPeers(p, o) :
                      objs[p][o].remote_shards[q]
                          = [k \in DOMAIN objs[q][o].local_shards |-> RRef(q, k)]

\* Three participants have returned from the construction; one of them owns
\* no shard and has entries for both others, who have an entry for each other
\* only.
C15_Witness ==
    /\ world.W = 3 /\ AllWithRRefs
    /\ \A p \in Ranks : opc[p][1] = "live"
    /\ \E p \in Ranks :
          /\ Len(objs[p][1].local_shards) = 0
          /\ DOMAIN objs[p][1].remote_shards = Ranks \ {p}
          /\ \A q \in Ranks \ {p} : DOMAIN objs[q][1].remote_shards = Ranks \ {p, q}

\* Participant q has sent every call of _init_rpc for object o, and each has
\* been applied at its receiver: the receiver has stored the references under
\* the rank of q and answered.
AdvertisedAndApplied(q, o) ==
    /\ opc[q][o] \notin {"new", "post_init", "registering", "registered", "all_gather"}
    /\ {c.to : c \in CallsOf(q, o)}
           = {t \in Ranks \ {q} : Len(objs[q][o].local_shards) # 0}
    /\ \A c \in CallsOf(q, o) :
          /\ c.state = "done"
          /\ q \in DOMAIN objs[c.to][o].remote_shards
          /\ objs[c.to][o].remote_shards[q] = c.rrefs

\* C16: no participant returns from a construction with init_rrefs before
\* every participant has sent its calls of _register_remote_shards and every
\* one of those calls has been applied at its receiver.
C16_BarrierEndsRegistration ==
    \A p \in Ranks, o \in DOMAIN world.objects :
        opc[p][o] = "live" /\ objs[p][o].init_rrefs =>
            \A q \in Ranks : AdvertisedAndApplied(q, o)

\* Of three participants that own a shard each, one has returned from the
\* construction while another is still in the barrier; the six calls have been
\* answered.
C16_Witness ==
    /\ world.W = 3
    /\ \E p, q \in Ranks : opc[p][1] = "live" /\ opc[q][1] = "barrier"
    /\ Cardinality({c \in rpcs : c.obj = 1 /\ c.state = "done"}) = 6

\* The identifiers process p has assigned so far.
Assigned(p) ==
    {objs[p][o].sharded_tensor_id :
        o \in {x \in DOMAIN world.objects :
                  /\ opc[p][x] # "new" /\ objs[p][x] # NoInstance
                  /\ objs[p][x].sharded_tensor_id # NoId}}

\* The step registers object o of process p.
Registers(p, o) == opc[p][o] = "registering" /\ opc'[p][o] = "registered"

\* C17: every registration, at construction or at load, gives the object an
\* identifier greater than every identifier its process has assigned before,
\* to objects that still exist or to objects that have been destroyed, however
\* the registrations and destructions interleave.
C17_IdentifiersIncrease ==
    [][\A p \in Ranks, o \in DOMAIN world.objects :
          Registers(p, o) =>
              /\ objs'[p][o].sharded_tensor_id # NoId
              /\ \A id \in Assigned(p) : objs'[p][o].sharded_tensor_id > id]_vars

\* A process has constructed, registered and destroyed one object, and has
\* then registered a loaded one under the next identifier.
C17_Witness ==
    /\ world.objects = <<"rrefs", "loaded">>
    /\ opc[0][1] = "deleted" /\ objs[0][1].sharded_tensor_id = 0
    /\ opc[0][2] = "registered" /\ objs[0][2].sharded_tensor_id = 1
    /\ DOMAIN sharded_tensor_map[0] = {1}

\* The objects of process p that asked for remote references, have been
\* registered, and whose __del__ has not popped the map yet.
RegisteredObjects(p) ==
    {o \in DOMAIN world.objects :
        /\ opc[p][o] \notin {"new", "deleted"} /\ objs[p][o] # NoInstance
        /\ objs[p][o].init_rrefs
        /\ objs[p][o].sharded_tensor_id # NoId}

\* The keys of the map of process p are the identifiers of its registered
\* objects, each key leads to the object that has it, and an object that did
\* not ask for remote references has no identifier.
MapIsRegisteredObjects(p) ==
    /\ DOMAIN sharded_tensor_map[p]
           = {objs[p][o].sharded_tensor_id : o \in RegisteredObjects(p)}
    /\ \A o \in RegisteredObjects(p) :
          sharded_tensor_map[p][objs[p][o].sharded_tensor_id] = o
    /\ \A o \in DOMAIN world.objects :
          opc[p][o] # "new" /\ objs[p][o] # NoInstance /\ ~objs[p][o].init_rrefs
              => objs[p][o].sharded_tensor_id = NoId

\* The step is the __del__ of object o of process p popping the map.
Destroys(p, o) == opc[p][o] = "deleting" /\ opc'[p][o] = "deleted"

\* C18: at every moment the keys of the map of a process are exactly the
\* identifiers of the instances that asked for remote references, have been
\* registered and have not been destroyed; an instance that did not ask never
\* has an entry; and a destruction, holding the lock, removes the identifier of
\* its own instance and leaves every other entry as it is.
C18_MapMembership ==
    /\ [](\A p \in Ranks : MapIsRegisteredObjects(p))
    /\ [][\A p \in Ranks, o \in DOMAIN world.objects :
             Destroys(p, o) =>
                 /\ sharded_tensor_lock[p] = Thread("del", o, <<>>)
                 /\ DOMAIN sharded_tensor_map'[p]
                        = (DOMAIN sharded_tensor_map[p]) \ {objs[p][o].sharded_tensor_id}
                 /\ \A id \in DOMAIN sharded_tensor_map'[p] :
                        sharded_tensor_map'[p][id] = sharded_tensor_map[p][id]]_vars

\* A process registered its second object first and its first object second,
\* and has destroyed the first: the entry of the second is the only one left.
C18_Witness ==
    /\ world.objects = <<"rrefs", "rrefs">>
    /\ opc[0][1] = "deleted" /\ objs[0][1].sharded_tensor_id = 1
    /\ opc[0][2] = "live" /\ objs[0][2].sharded_tensor_id = 0
    /\ DOMAIN sharded_tensor_map[0] = {0}

\* The step is the handler of the call c running the body of its with block.
Handled(c) == c \in rpcs /\ c.state = "locked" /\ c \notin rpcs'

\* The call c as it is after the step.
Answer(c) == CHOOSE d \in rpcs' : CallKey(d) = CallKey(c)

\* The call c fails with a RuntimeError of the given message, and no object
\* and no entry of the map of any process is changed.
FailsAndChangesNothing(c, what) ==
    /\ Answer(c).state = "failed"
    /\ Answer(c).error = Raise("RuntimeError", what)
    /\ objs' = objs
    /\ sharded_tensor_map' = sharded_tensor_map

\* The references of the call c are stored under the rank of its sender in
\* the instance registered under its identifier; nothing else is changed.
Stores(c) ==
    /\ Answer(c).state = "done"
    /\ LET o == sharded_tensor_map[c.to][c.id]
       IN /\ objs'[c.to][o].remote_shards
                 = (c.sender :> c.rrefs) @@ objs[c.to][o].remote_shards
          /\ objs' = [objs EXCEPT ![c.to][o].remote_shards = objs'[c.to][o].remote_shards]
    /\ sharded_tensor_map' = sharded_tensor_map

\* C19: an inbound call of _register_remote_shards fails when the map has no
\* entry for its identifier, fails when the entry's instance has expired, and
\* in every other case stores the references in the instance's table of remote
\* shards under the sender's rank; a call that fails changes no table of
\* remote shards and no entry of the map.
C19_InboundCallFailsOrStores ==
    [][\A c \in rpcs :
          Handled(c) =>
              IF c.id \notin DOMAIN sharded_tensor_map[c.to]
              THEN FailsAndChangesNothing(c, "Could not find sharded_tensor_id")
              ELSE IF sharded_tensor_map[c.to][c.id] \in Expired(c.to)
              THEN FailsAndChangesNothing(c, "ShardedTensor weakref has been deallocated")
              ELSE Stores(c)]_vars

\* The lock of process p is free or held by a thread that is inside one of the
\* three with blocks: of _post_init, of __del__, or of the handler of a call.
HeldInsideWithBlock(p) ==
    \/ sharded_tensor_lock[p] = Free
    \/ \E o \in DOMAIN world.objects :
          \/ sharded_tensor_lock[p] = Thread("init", o, <<>>) /\ opc[p][o] = "registering"
          \/ sharded_tensor_lock[p] = Thread("del", o, <<>>) /\ opc[p][o] = "deleting"
    \/ \E c \in rpcs :
          /\ c.to = p /\ c.state = "locked"
          /\ sharded_tensor_lock[p] = Thread("rpc", 0, CallKey(c))

\* No thread of process p that waits in _all_gather, in wait_all or in the
\* barrier, or whose call is on its way, holds the lock of p.
NotHeldWhileBlocked(p) ==
    /\ \A o \in DOMAIN world.objects :
          opc[p][o] \in {"registered", "all_gather", "wait_all", "barrier"}
              => sharded_tensor_lock[p].obj # o
    /\ \A c \in rpcs :
          c.to = p /\ c.state # "locked" => sharded_tensor_lock[p].key # CallKey(c)

\* The step of process p changes the map or the counter.
TouchesRegistry(p) ==
    \/ sharded_tensor_map'[p] # sharded_tensor_map[p]
    \/ sharded_tensor_current_id'[p] # sharded_tensor_current_id[p]

\* C20: the map and the counter are read, inserted into and popped only by a
\* thread that holds the lock of the process; the lock is held only inside the
\* with block of the lookup, the insertion or the removal and is free again
\* when the block is left, by return or by exception; and no thread holds it
\* while it waits in a collective, an RPC or the barrier.
C20_LockDiscipline ==
    /\ [](\A p \in Ranks : HeldInsideWithBlock(p) /\ NotHeldWhileBlocked(p))
    /\ [][/\ \A p \in Ranks : TouchesRegistry(p) => sharded_tensor_lock[p] # Free
          /\ \A p \in Ranks, o \in DOMAIN world.objects :
                /\ Registers(p, o) =>
                      /\ sharded_tensor_lock[p] = Thread("init", o, <<>>)
                      /\ sharded_tensor_lock'[p] = Free
                /\ Destroys(p, o) =>
                      /\ sharded_tensor_lock[p] = Thread("del", o, <<>>)
                      /\ sharded_tensor_lock'[p] = Free
          /\ \A c \in rpcs :
                Handled(c) =>
                    /\ sharded_tensor_lock[c.to] = Thread("rpc", 0, CallKey(c))
                    /\ sharded_tensor_lock'[c.to] = Free]_vars

\* A handler has left its with block by exception, one object of the process
\* waits in the barrier and the other has been destroyed: the lock is free.
C20_Witness ==
    /\ \E c \in rpcs : c.state = "failed" /\ sharded_tensor_lock[c.to] = Free
    /\ \E o, x \in DOMAIN world.objects : opc[0][o] = "barrier" /\ opc[0][x] = "deleted"

(***************************************************************************)
(* The claims about loading.                                               *)
(***************************************************************************)
\* The four fields of the snapshot, by the name the error gives them.
SnapshotFields == {"Local rank", "Global rank", "Local world size", "Global world size"}

\* The value of the field of the snapshot g.
FieldOf(g, field) ==
    CASE field = "Local rank" -> g.local_rank
      [] field = "Global rank" -> g.global_rank
      [] field = "Local world size" -> g.local_world_size
      [] field = "Global world size" -> g.global_world_size

\* The fields in which the snapshot of the save and the group of the load differ.
Mismatched == {f \in SnapshotFields : FieldOf(world.pg_saved, f) # FieldOf(world.pg_now, f)}

\* The load of the process has been decided: __setstate__ has raised or has
\* gone on to _post_init.
LoadDecided == opc[0][1] # "new"

\* __setstate__ has raised the error that names a mismatched field, its value
\* at save time and its value at load time; nothing is registered.
MismatchRaised ==
    /\ opc[0][1] = "raised"
    /\ err[0].type = "RuntimeError"
    /\ err[0].what \in Mismatched
    /\ err[0] = LoadMismatch(err[0].what, FieldOf(world.pg_saved, err[0].what),
                             FieldOf(world.pg_now, err[0].what))
    /\ sharded_tensor_map[0] = <<>>
    /\ sharded_tensor_current_id[0] = 0

Dispatches == torch_call # None /\ torch_call.state = "applied" /\ torch_call' # torch_call

\* The process group the handler is to be given: that of the first
\* ShardedTensor among the positional arguments, or, if no positional argument
\* is a ShardedTensor, of the first among the keyed arguments; None if neither
\* has one.
GroupOfFirst(args, kwargs) ==
    IF FirstShardedTensor(args) # 0
    THEN args[FirstShardedTensor(args)].process_group
    ELSE IF kwargs # None /\ FirstShardedTensor(kwargs.values) # 0
    THEN kwargs.values[FirstShardedTensor(kwargs.values)].process_group
    ELSE "None"

\* The step invokes the handler of the op once, with the types, the
\* positional and the keyed arguments of the application and the group of its
\* first ShardedTensor, and raises nothing.
InvokesHandlerOnce ==
    /\ invoked' = Append(invoked,
                         Invocation(SHARDED_OPS[torch_call.func], torch_call.types,
                                    torch_call.args, torch_call.kwargs,
                                    GroupOfFirst(torch_call.args, torch_call.kwargs)))
    /\ GroupOfFirst(torch_call.args, torch_call.kwargs) # "None"
    /\ thrown' = NoError

\* C22: when an op that has a registered handler is applied, the handler is
\* invoked exactly once with (types, args, kwargs, process group), the process
\* group being that of the first ShardedTensor among the positional arguments
\* or, only if no positional argument is a ShardedTensor, of the first
\* ShardedTensor among the keyed arguments.
C22_HandlerInvokedOnce ==
    [][Dispatches /\ SHARDED_OPS[torch_call.func] # NoHandler => InvokesHandlerOnce]_vars

\* C23: the application of an op that has no registered handler ends in the
\* RuntimeError that names the op; no handler is invoked, and the table of
\* custom ops is as it was.
C23_UnregisteredOpNotSupported ==
    [][Dispatches /\ SHARDED_OPS[torch_call.func] = NoHandler =>
          /\ thrown' = NotSupported(torch_call.func)
          /\ invoked' = invoked
          /\ SHARDED_OPS' = SHARDED_OPS]_vars

\* add has a handler and cat has none; cat has been applied to a ShardedTensor
\* and a list, and the application has ended in the error that names cat.
C23_Witness ==
    /\ SHARDED_OPS["add"] # NoHandler /\ SHARDED_OPS["cat"] = NoHandler
    /\ torch_call # None
    /\ torch_call.state = "returned" /\ torch_call.func = "cat"
    /\ Len(torch_call.args) = 2 /\ FirstShardedTensor(torch_call.args) = 1
    /\ thrown = NotSupported("cat")
    /\ invoked = <<>>

(***************************************************************************)
(* The claims about the communication of the constructors.                 *)
(***************************************************************************)
\* The collective and point-to-point operations participant r has taken part
\* in: the all_gather_object of partial views, the gather_object of gather,
\* the exchange of reshard, and the _all_gather, the calls and the barrier of
\* _init_rpc.
Communications(r) ==
    (IF agbuf[r] # Unset THEN 1 ELSE 0)
    + (IF gbuf[r] # Unset THEN 1 ELSE 0)
    + (IF xbuf[r] # <<>> THEN 1 ELSE 0)
    + Cardinality({o \in DOMAIN all_ids : all_ids[o][r] # NoId})
    + Cardinality({c \in rpcs : c.sender = r})
    + Cardinality({o \in DOMAIN barrier : r \in barrier[o]})

\* C24: a construction without init_rrefs from a spec, or from local shards
\* and global metadata, takes part in no collective and no point-to-point
\* operation; a construction from local shards only takes part in exactly one
\* all_gather_object of the partial views when the group has more than one
\* participant, and in none when the group has one participant.
C24_ConstructorCommunication ==
    \A r \in Ranks :
        /\ Communications(r) <= 1
        /\ world.proto \in {"spec", "lsgm"} => Communications(r) = 0
        /\ world.proto = "local" /\ world.W = 1 => Communications(r) = 0
        /\ world.proto = "local" /\ world.W > 1 /\ Returned(r) =>
               Communications(r) = 1 /\ agbuf[r] # Unset

\* Two participants have constructed from local shards only; each has taken
\* part in the one all_gather_object, and both hold their instance.
C24_Witness ==
    /\ world.proto = "local" /\ world.W = 2
    /\ \A r \in Ranks : pc[r] = "live" /\ Communications(r) = 1

(***************************************************************************)
(* The claims about the cases and the frame of reshard.                    *)
(***************************************************************************)
\* The reshard call of participant r returns from the exchange in this step.
ReshardSucceeds(r) == pc[r] = "exchange" /\ pc'[r] = "live"

\* The tensor participant q handed to the exchange participant r returns from.
HandedIn(r, q) == xbuf[q][Len(xbuf[r])]

\* The boxes (offsets and sizes) of a list of shard metadata.
Boxes(shards_metadata) ==
    {<<shards_metadata[i].shard_offsets, shards_metadata[i].shard_sizes>> :
        i \in DOMAIN shards_metadata}

\* The shard participant r holds after the step is a whole shard of the old
\* layout as its holder handed it in, and the boxes of the layout are as before.
OnlyReassigned(r) ==
    /\ Boxes(inst'[r].metadata.shards_metadata) = Boxes(inst[r].metadata.shards_metadata)
    /\ \E i \in DOMAIN inst[r].metadata.shards_metadata :
          LET m == inst[r].metadata.shards_metadata[i]
          IN /\ inst'[r].local_shards[1].metadata.shard_offsets = m.shard_offsets
             /\ inst'[r].local_shards[1].metadata.shard_sizes = m.shard_sizes
             /\ inst'[r].local_shards[1].tensor.data = HandedIn(r, m.placement.rank).data

\* The shard participant r holds after the step is a chunk of the new
\* dimension that spans the other dimensions, and each of its elements is the
\* element of that global index as its old holder handed it in.
SplitAlongNewDim(r) ==
    LET new == inst'[r].local_shards[1]
        old == inst[r].metadata.shards_metadata
    IN /\ \A d \in DOMAIN new.metadata.shard_sizes :
             d # Target(r).dim + 1 =>
                 /\ new.metadata.shard_sizes[d] = inst[r].metadata.size[d]
                 /\ new.metadata.shard_offsets[d] = 0
       /\ Boxes(inst'[r].metadata.shards_metadata) # Boxes(old)
       /\ \A idx \in Indices(new.metadata.shard_sizes) :
             \E i \in DOMAIN old :
                 /\ AddIdx(new.metadata.shard_offsets, idx) \in Box(old[i])
                 /\ new.tensor.data[idx]
                        = HandedIn(r, old[i].placement.rank).data[
                              SubIdx(AddIdx(new.metadata.shard_offsets, idx),
                                     old[i].shard_offsets)]

\* The world is the scenario and every participant has returned from its reshard.
ScenarioResharded ==
    /\ world \in ScenarioReshardWorlds
    /\ \A r \in Ranks : pc[r] = "live" /\ ncalls[r] = 1

\* Participant r holds one shard of size [8, 1] that is column r of the array.
HoldsColumn(r) ==
    /\ Len(inst[r].local_shards) = 1
    /\ inst[r].local_shards[1].tensor.size = <<8, 1>>
    /\ inst[r].local_shards[1].metadata.shard_sizes = <<8, 1>>
    /\ \A i \in 0..7 :
          inst[r].local_shards[1].tensor.data[<<i, 0>>] = GlobalValue(<<8, 4>>, <<i, r>>)

\* C25: a successful reshard to a spec of the same chunking dimension and
\* other placements hands whole shards of the old layout to new holders; one
\* to a spec of another dimension splits the data along the new dimension; in
\* both cases the instance then has the new spec and the shard list of the
\* layout of the new spec. In the scenario (4 participants, chunks [2, 4] of an
\* array [8, 4], resharded to dimension 1 with the same placements) every
\* participant ends with one shard [8, 1], and the shards side by side in rank
\* order are the array.
C25_ReshardCases ==
    /\ [](ScenarioResharded => \A r \in Ranks : HoldsColumn(r))
    /\ [][\A r \in Ranks :
             ReshardSucceeds(r) =>
                 /\ inst'[r].sharding_spec = Target(r)
                 /\ inst'[r].metadata.shards_metadata
                        = Layout(Target(r), inst[r].metadata.size).shards_metadata
                 /\ Len(inst'[r].local_shards) = 1
                 /\ IF inst[r].sharding_spec.dim = Target(r).dim
                    THEN OnlyReassigned(r)
                    ELSE SplitAlongNewDim(r)]_vars

\* The scenario has run: the 4 participants hold the 4 columns.
C25_Witness == ScenarioResharded /\ \A r \in Ranks : HoldsColumn(r)

(***************************************************************************)
(* The claims about the order and the end of the registration.             *)
(***************************************************************************)
\* The step is participant p handing the identifier of its object o to the
\* _all_gather.
Advertises(p, o) == all_ids[o][p] = NoId /\ all_ids'[o][p] # NoId

\* The call c was sent by _init_rpc after every participant had advertised,
\* it carries the identifier its receiver advertised, and it has not failed.
SentAsAdvertised(c) ==
    /\ \A q \in Ranks : all_ids[c.obj][q] # NoId
    /\ c.id = all_ids[c.obj][c.to]
    /\ c.state # "failed"

\* C26: a participant has its instance in its map before it advertises the
\* identifier; a peer sends its call only after the identifiers have been
\* gathered and addresses it with the identifier the receiver advertised; so
\* no call of a construction or a load finds its identifier missing or its
\* instance expired, however the participants interleave.
C26_RegisteredBeforeAdvertised ==
    /\ [](\A c \in rpcs : c.obj # 0 => SentAsAdvertised(c))
    /\ [][/\ \A p \in Ranks, o \in DOMAIN world.objects :
                Advertises(p, o) =>
                    /\ all_ids'[o][p] = objs[p][o].sharded_tensor_id
                    /\ all_ids'[o][p] \in DOMAIN sharded_tensor_map[p]
                    /\ sharded_tensor_map[p][all_ids'[o][p]] = o
          /\ \A c \in rpcs :
                Handled(c) /\ c.obj # 0 =>
                    /\ c.id \in DOMAIN sharded_tensor_map[c.to]
                    /\ sharded_tensor_map[c.to][c.id] = c.obj
                    /\ c.obj \notin Expired(c.to)
                    /\ Answer(c).state = "done"]_vars

\* The six calls of three participants that own a shard each have been
\* answered while a participant still waits for its futures.
C26_Witness ==
    /\ world.W = 3
    /\ Cardinality({c \in rpcs : c.obj = 1 /\ c.state = "done"}) = 6
    /\ \E p \in Ranks : opc[p][1] = "wait_all"

\* The construction of object o has returned on participant p.
Completed(p, o) ==
    /\ p \in barrier[o]
    /\ opc[p][o] \in {"live", "expired", "deleting", "deleted"}

\* C27: when every participant of the group constructs (or loads) with
\* init_rrefs, with the same arguments and without failing, and a step is
\* taken as long as some thread can take one, the construction of every
\* participant eventually returns: the lock, the handlers of the inbound
\* calls, the gather of the identifiers and the barrier do not block each
\* other for ever.
C27_RegistrationTerminates ==
    <>(\A p \in Ranks, o \in DOMAIN world.objects : Completed(p, o))

\* The construction has returned on each of three participants, of which two
\* own a shard, and no instance has been dropped yet.
C27_Witness ==
    /\ world.W = 3
    /\ \A p \in Ranks : Completed(p, 1) /\ opc[p][1] = "live"
    /\ Cardinality({p \in Ranks : Len(objs[p][1].local_shards) # 0}) = 2

(***************************************************************************)
(* The claim about a construction that ends in an error.                   *)
(***************************************************************************)
\* The step ends the construction or the load of object o on process p with
\* an exception.
EndsInError(p, o) == opc[p][o] # "raised" /\ opc'[p][o] = "raised"

\* The objects of process p other than o that have been given an identifier.
OthersWithId(p, o) ==
    {x \in DOMAIN world.objects \ {o} :
        /\ opc[p][x] # "new" /\ objs[p][x] # NoInstance
        /\ objs[p][x].sharded_tensor_id # NoId}

\* C28: when a construction or a load ends in an error, the map of its process
\* has no entry for the failed instance and the counter of identifiers counts
\* only the other instances, as before the call; this includes the error of
\* _post_init that the RPC framework is not initialized.
C28_FailedConstructionLeavesRegistry ==
    [][\A p \in Ranks, o \in DOMAIN world.objects :
          EndsInError(p, o) =>
              /\ \A k \in DOMAIN sharded_tensor_map'[p] : sharded_tensor_map'[p][k] # o
              /\ sharded_tensor_current_id'[p] = Cardinality(OthersWithId(p, o))]_vars

(***************************************************************************)
(* The claim about what reshard leaves alone.                              *)
(***************************************************************************)
\* The step is a reshard of object o of participant p (the first instance, the
\* one the application reshards) that returns without an exception: at once
\* when the layout is already the requested one, else after the exchange.
ReshardReturns(p, o) ==
    /\ o = 1
    /\ opc[p][o] \in {"live", "exchange"}
    /\ opc'[p][o] = "live"
    /\ ncalls'[p] = ncalls[p] + 1
    /\ err'[p] = NoError

\* Every field of the instance but the local shards, the shard list of the
\* metadata and the sharding spec is as before.
RestOfInstanceKept(before, after) ==
    /\ after.metadata.size = before.metadata.size
    /\ after.metadata.tensor_properties = before.metadata.tensor_properties
    /\ after.process_group = before.process_group
    /\ after.sharded_tensor_id = before.sharded_tensor_id
    /\ after.init_rrefs = before.init_rrefs
    /\ after.remote_shards = before.remote_shards
    /\ after = [before EXCEPT !.local_shards = after.local_shards,
                              !.metadata.shards_metadata = after.metadata.shards_metadata,
                              !.sharding_spec = after.sharding_spec]

\* C29: a reshard that succeeds changes at most the local shards, the shard
\* list of the global metadata and the sharding spec of its instance; the
\* global size, the tensor properties, the process group, the identifier, the
\* map and the counter of the process, and the tables of remote shards of the
\* instance and of every peer stay as they were, and no registration call is
\* sent: the references stored before the reshard are not refreshed.
C29_ReshardFrame ==
    [][\A p \in Ranks, o \in DOMAIN world.objects :
          ReshardReturns(p, o) =>
              /\ RestOfInstanceKept(objs[p][o], objs'[p][o])
              /\ sharded_tensor_map' = sharded_tensor_map
              /\ sharded_tensor_current_id' = sharded_tensor_current_id
              /\ \A q \in Ranks \ {p} : objs'[q] = objs[q]
              /\ rpcs' = rpcs]_vars

\* Two registered participants that hold each other's remote references have
\* resharded from chunks of rows to chunks of columns.
C29_Witness ==
    /\ world.program # <<>>
    /\ \A p \in Ranks :
          /\ opc[p][1] = "live" /\ ncalls[p] = 1 /\ err[p] = NoError
          /\ objs[p][1].sharding_spec = world.program[1]
          /\ objs[p][1].sharding_spec.dim = 1
          /\ objs[p][1].local_shards[1].metadata.shard_sizes[2] = 1
          /\ DOMAIN objs[p][1].remote_shards = Ranks \ {p}
          /\ sharded_tensor_map[p] = (0 :> 1)

(***************************************************************************)
(* The claim about the other instances of a process under reshard.         *)
(***************************************************************************)
\* C30: a reshard of one instance leaves the global metadata of every other
\* instance of the same process as it was, also of an instance that was made
\* by _init_from_local_shards_and_global_metadata from the same supplied
\* metadata object.
C30_ReshardIsolation ==
    [][\A p \in Ranks, o \in DOMAIN world.objects :
          ReshardReturns(p, o) =>
              \A x \in DOMAIN world.objects \ {o} :
                  objs[p][x] # NoInstance => objs'[p][x].metadata = objs[p][x].metadata]_vars

====
